---- MODULE Spec2Model ----
(***************************************************************************)
(* Graph construction and validation engine of component-visualizer-v2:    *)
(* ExcelParser (row ingestion, id sanitizing, category colours) and        *)
(* DataValidator (multi-stage graph validation).                           *)
(*                                                                         *)
(* JavaScript strings are modelled as sequences of one-character strings,  *)
(* so that trimming, stripping, concatenation and case folding are         *)
(* computed character by character.                                        *)
(***************************************************************************)
EXTENDS Integers, Sequences, FiniteSets, TLC

VARIABLES
    sanIn, sanOut,                 \* a sanitizeId call: argument and result
    phase, runNo, rowIndex,        \* pipeline position, forEach index
    nodes, links, colorMap,        \* transformToComponentData: locals
    lookups, upserts,              \* this run's getColorForCategory and nodes.set calls
    rowsLog, faults,               \* this run's rows, and whether each one raised
    preNodes, preLinks,            \* nodes and links before the last row
    vdata, vres,                   \* a DataValidator.validate call: argument, result
    job,                           \* an ExcelParser.processFile call: locals, position
    hook,                          \* useExcelProcessor: its state, what its calls returned
    prior,                         \* an earlier call of the hook that has not returned yet
    app                            \* AppProvider: notifications, pending timers, the clock

vars == <<sanIn, sanOut, phase, runNo, rowIndex, nodes, links, colorMap,
          lookups, upserts, rowsLog, faults, preNodes, preLinks, vdata, vres,
          job, hook, prior, app>>

sanVars == <<sanIn, sanOut>>
runVars == <<phase, runNo, rowIndex, nodes, links, colorMap, lookups, upserts,
             rowsLog, faults, preNodes, preLinks>>
valVars == <<vdata, vres>>
fileVars == <<job, hook, prior>>
noteVars == <<app>>

-----------------------------------------------------------------------------
(* Bounds *)

MaxStrLen == 3
MaxRows == 2
MaxRuns == 2
MaxNodeItems == 2
MaxLinkItems == 2
MaxScoreNodes == 5
MaxScoreLinks == 5
MaxFileRows == 2
MaxHubCopies == 11
MaxCycleLinks == 3
MaxOrphanNodes == 7
MaxOrphanLinks == 2
MaxKeyLinks == 3
MaxAdded == 3          \* notifications added
MaxTicks == 3          \* advances of the clock

-----------------------------------------------------------------------------
(* Characters and strings *)

UpperCase == <<"A", "B", "C", "D", "E", "F", "G", "H", "I", "J", "K", "L", "M",
               "N", "O", "P", "Q", "R", "S", "T", "U", "V", "W", "X", "Y", "Z">>
LowerCase == <<"a", "b", "c", "d", "e", "f", "g", "h", "i", "j", "k", "l", "m",
               "n", "o", "p", "q", "r", "s", "t", "u", "v", "w", "x", "y", "z">>
Digits == {"0", "1", "2", "3", "4", "5", "6", "7", "8", "9"}

Range(f) == {f[i] : i \in DOMAIN f}

\* \s of a JavaScript regular expression, and the characters trim() removes
isWhitespace(c) == c \in {" ", "\t", "\n"}

\* the character class [a-zA-Z0-9\s-_] of sanitizeId
isIdChar(c) ==
    \/ c \in Range(LowerCase)
    \/ c \in Range(UpperCase)
    \/ c \in Digits
    \/ isWhitespace(c)
    \/ c \in {"-", "_"}

\* U+212A KELVIN SIGN, a letter outside a-zA-Z whose lowercase is "k"
KelvinSign == "U+212A"

lowerChar(c) ==
    IF c \in Range(UpperCase)
    THEN LowerCase[CHOOSE i \in DOMAIN UpperCase : UpperCase[i] = c]
    ELSE IF c = KelvinSign THEN "k"
    ELSE c

toLowerCase(s) == [i \in DOMAIN s |-> lowerChar(s[i])]

RECURSIVE trimStart(_)
trimStart(s) ==
    IF s # <<>> /\ isWhitespace(Head(s)) THEN trimStart(Tail(s)) ELSE s

RECURSIVE trimEnd(_)
trimEnd(s) ==
    IF s # <<>> /\ isWhitespace(s[Len(s)])
    THEN trimEnd(SubSeq(s, 1, Len(s) - 1))
    ELSE s

\* String.prototype.trim
trim(s) == trimEnd(trimStart(s))

\* .replace(/[^a-zA-Z0-9\s-_]/g, '')
removeSpecial(s) == SelectSeq(s, isIdChar)

\* .replace(/\s+/g, '_'): every maximal run of whitespace becomes one "_"
RECURSIVE replaceSpaces(_)
replaceSpaces(s) ==
    IF s = <<>> THEN <<>>
    ELSE IF isWhitespace(Head(s))
         THEN <<"_">> \o replaceSpaces(trimStart(s))
         ELSE <<Head(s)>> \o replaceSpaces(Tail(s))

sanitizeId_noLower(input) == replaceSpaces(removeSpecial(trim(input)))

sanitizeId(input) == toLowerCase(replaceSpaces(removeSpecial(trim(input))))

-----------------------------------------------------------------------------
(* Inputs of the sanitizer *)

SanChars == {"a", "A", "1", " ", "\t", "!", "-", "_"}

RECURSIVE StringsUpTo(_, _)
StringsUpTo(chars, n) ==
    IF n = 0 THEN {<<>>}
    ELSE LET shorter == StringsUpTo(chars, n - 1)
         IN  shorter \cup {Append(s, c) : s \in shorter, c \in chars}

\* the strings sanitizeId is handed: at most maxLen characters of SanChars
SanInputs(maxLen) == StringsUpTo(SanChars, maxLen)

-----------------------------------------------------------------------------
(* JavaScript values: a string, a number (s is its rendering), or            *)
(* null/undefined                                                          *)

Str(s) == [k |-> "str", s |-> s]
Num0 == [k |-> "num", s |-> <<"0">>]
Num5 == [k |-> "num", s |-> <<"5">>]
Undef == [k |-> "undef", s |-> <<>>]

\* ToBoolean
truthy(v) ==
    \/ v.k = "str" /\ v.s # <<>>
    \/ v.k = "num" /\ v.s # <<"0">>

\* v?.trim() raises exactly when v is neither nullish nor a string
trimThrows(v) == v.k = "num"

\* v?.trim() is truthy (v is not a number here)
nonBlank(v) == v.k = "str" /\ trim(v.s) # <<>>

\* v?.trim() || dflt
trimOr(v, dflt) == IF nonBlank(v) THEN trim(v.s) ELSE dflt

\* v || dflt, as a string
valueOr(v, dflt) == IF truthy(v) THEN v.s ELSE dflt

-----------------------------------------------------------------------------
(* ExcelParser.getColorForCategory *)

GoldenAngleMilli == 137508
FullTurnMilli == 360000

mapHas(map, key) == \E i \in DOMAIN map : map[i].key = key
mapGet(map, key) == map[CHOOSE i \in DOMAIN map : map[i].key = key].value

mapSet_append(map, key, value) == Append(map, [key |-> key, value |-> value])

\* Map.prototype.set: an existing key keeps its position
mapSet(map, key, value) ==
    IF mapHas(map, key)
    THEN [i \in DOMAIN map |->
             IF map[i].key = key THEN [key |-> key, value |-> value] ELSE map[i]]
    ELSE Append(map, [key |-> key, value |-> value])

\* `hsl(${hue}, 70%, 50%)`, the hue in thousandths of a degree
hsl(size) == [h |-> (size * GoldenAngleMilli) % FullTurnMilli, s |-> 70, l |-> 50]

getColorForCategory_skew(category, cmap) ==
    LET cmap2 == IF mapHas(cmap, category) THEN cmap
                 ELSE mapSet(cmap, category, hsl(Len(cmap) + 1))
    IN  [color |-> mapGet(cmap2, category), colorMap |-> cmap2]

getColorForCategory(category, cmap) ==
    LET cmap2 == IF mapHas(cmap, category) THEN cmap
                 ELSE mapSet(cmap, category, hsl(Len(cmap)))
    IN  [color |-> mapGet(cmap2, category), colorMap |-> cmap2]

-----------------------------------------------------------------------------
(* ExcelParser.transformToComponentData: the body of the per-row callback  *)
(* st = [nodes, links, colorMap, calls, upserts, threw]                    *)

sInput == <<"I", "n", "p", "u", "t">>
sOutput == <<"O", "u", "t", "p", "u", "t">>

raise(st) == [st EXCEPT !.threw = TRUE]

\* nodes.set(id, node)
setNode(st, node) ==
    [st EXCEPT !.nodes = mapSet(@, node.id, node), !.upserts = Append(@, node)]

pushLink_dedup(list, link) ==
    IF \E i \in DOMAIN list : list[i] = link THEN list ELSE Append(list, link)

\* links.push(link)
pushLink(list, link) == Append(list, link)

\* if (row.Solutions?.trim()) { nodes.set(solutionId, {...}) }
solutionStep(row, index, st) ==
    IF trimThrows(row.Solutions) THEN raise(st)
    ELSE IF ~nonBlank(row.Solutions) THEN st
    ELSE IF trimThrows(row.HighLevelInput) \/ trimThrows(row.HighLevelOutput)
         THEN raise(st)
    ELSE LET solutionId == sanitizeId(row.Solutions.s)
         IN  setNode(st,
                 [id |-> solutionId,
                  name |-> trim(row.Solutions.s),
                  type |-> "service",
                  description |-> [text |-> "Component from row", row |-> index + 1],
                  metadata |-> [rowIndex |-> index + 1,
                                highLevelInput |-> trimOr(row.HighLevelInput, <<>>),
                                highLevelOutput |-> trimOr(row.HighLevelOutput, <<>>)]])

\* if (row['Solution Input']?.trim() && row.Solutions?.trim()) { ... }
inputStep(row, index, st) ==
    IF st.threw THEN st
    ELSE IF trimThrows(row.SolutionInput) THEN raise(st)
    ELSE IF ~nonBlank(row.SolutionInput) THEN st
    ELSE IF trimThrows(row.Solutions) THEN raise(st)
    ELSE IF ~nonBlank(row.Solutions) THEN st
    ELSE IF trimThrows(row.HighLevelInput) THEN raise(st)
    ELSE LET inputId == sanitizeId(row.SolutionInput.s)
             solutionId == sanitizeId(row.Solutions.s)
             category == valueOr(row.HighLevelInput, sInput)
             got == getColorForCategory(category, st.colorMap)
         IN  [setNode(st,
                     [id |-> inputId,
                      name |-> trim(row.SolutionInput.s),
                      type |-> "interface",
                      description |-> [text |-> "Input interface"],
                      metadata |-> [category |-> trimOr(row.HighLevelInput, sInput),
                                    rowIndex |-> index + 1]])
              EXCEPT
                 !.links = pushLink(@,
                     [source |-> inputId,
                      target |-> solutionId,
                      type |-> "dependency",
                      label |-> "provides input to",
                      metadata |-> [color |-> got.color,
                                    category |-> trimOr(row.HighLevelInput, sInput)]]),
                 !.colorMap = got.colorMap,
                 !.calls = Append(@, [category |-> category, color |-> got.color])]

\* if (row['Solution Output']?.trim() && row.Solutions?.trim()) { ... }
outputStep(row, index, st) ==
    IF st.threw THEN st
    ELSE IF trimThrows(row.SolutionOutput) THEN raise(st)
    ELSE IF ~nonBlank(row.SolutionOutput) THEN st
    ELSE IF trimThrows(row.Solutions) THEN raise(st)
    ELSE IF ~nonBlank(row.Solutions) THEN st
    ELSE IF trimThrows(row.HighLevelOutput) THEN raise(st)
    ELSE LET outputId == sanitizeId(row.SolutionOutput.s)
             solutionId == sanitizeId(row.Solutions.s)
             category == valueOr(row.HighLevelOutput, sOutput)
             got == getColorForCategory(category, st.colorMap)
         IN  [setNode(st,
                     [id |-> outputId,
                      name |-> trim(row.SolutionOutput.s),
                      type |-> "interface",
                      description |-> [text |-> "Output interface"],
                      metadata |-> [category |-> trimOr(row.HighLevelOutput, sOutput),
                                    rowIndex |-> index + 1]])
              EXCEPT
                 !.links = pushLink(@,
                     [source |-> solutionId,
                      target |-> outputId,
                      type |-> "dependency",
                      label |-> "produces output",
                      metadata |-> [color |-> got.color,
                                    category |-> trimOr(row.HighLevelOutput, sOutput)]]),
                 !.colorMap = got.colorMap,
                 !.calls = Append(@, [category |-> category, color |-> got.color])]

\* try { ... } catch (rowError) { console.warn(...) }: whatever the row
\* wrote before it raised stays written
rowCallback(row, index, st) ==
    outputStep(row, index, inputStep(row, index, solutionStep(row, index,
        [st EXCEPT !.threw = FALSE])))

\* Array.from(nodes.values())
mapValues(map) == [i \in DOMAIN map |-> map[i].value]

-----------------------------------------------------------------------------
(* DataValidator: values it is handed                                      *)
(*   data  = [k : null | prim0 | prim | obj, nodes, links]                 *)
(*   field = [k : undef | obj | arr, items]    (obj: a non-array object)   *)
(*   entry = [k : null | obj, ...fields]                                   *)
(* and the state it accumulates                                            *)
(*   acc   = [errors, warnings, threw, seenIds, seenNames, linkSet]        *)

MAX_NODE_NAME_LENGTH == 100
MAX_NODES == 1000
MAX_LINKS == 5000

UndefField == [k |-> "undef", items |-> <<>>]
ObjField == [k |-> "obj", items |-> <<>>]
Arr(items) == [k |-> "arr", items |-> items]

\* data.nodes, data.links (reading a property of null raises; of a
\* primitive it gives undefined)
propThrows(data) == data.k = "null"
nodesOf(data) == IF data.k = "obj" THEN data.nodes ELSE UndefField
linksOf(data) == IF data.k = "obj" THEN data.links ELSE UndefField

\* entry?.field
opt(entry, field) == IF entry.k = "null" THEN Undef ELSE entry[field]

Err(code) == [code |-> code, severity |-> "error"]
ErrAt(code, index) == [code |-> code, severity |-> "error", index |-> index]
Warn(code) == [code |-> code]
WarnAt(code, index) == [code |-> code, index |-> index]
WarnNodes(code, count, ids) == [code |-> code, count |-> count, affectedNodes |-> ids]

pushError(acc, e) == [acc EXCEPT !.errors = Append(@, e)]
pushWarning(acc, w) == [acc EXCEPT !.warnings = Append(@, w)]
throw(acc) == [acc EXCEPT !.threw = TRUE]
pushErrorIf(cond, acc, e) == IF cond THEN pushError(acc, e) ELSE acc
pushWarningIf(cond, acc, w) == IF cond THEN pushWarning(acc, w) ELSE acc

NewAcc == [errors |-> <<>>, warnings |-> <<>>, threw |-> FALSE,
           seenIds |-> {}, seenNames |-> {}, linkSet |-> {}]

\* left fold of a stage over the entries of an array, stopping at a raise
RECURSIVE forEachNode(_, _, _)
RECURSIVE forEachLink(_, _, _, _)

validateBasicStructure(data, acc) ==
    IF data.k \in {"null", "prim0"}
    THEN pushError(acc, Err("MISSING_DATA"))
    ELSE pushErrorIf(nodesOf(data).k = "arr" /\ nodesOf(data).items = <<>>,
             pushErrorIf(linksOf(data).k # "arr",
                 pushErrorIf(nodesOf(data).k # "arr", acc, Err("INVALID_NODES")),
                 Err("INVALID_LINKS")),
             Err("NO_NODES"))

\* !v || typeof v !== 'string' || !v.trim()
notValidString(v) == ~truthy(v) \/ v.k # "str" \/ trim(v.s) = <<>>

validNodeTypes == {"service", "interface", "module", "class", "utility"}
validLinkTypes == {"dependency", "implements", "extends", "uses"}

\* validTypes.includes(t), a type name being the one-token string <<name>>
isOneOf(v, names) == v.k = "str" /\ Len(v.s) = 1 /\ v.s[1] \in names

\* if (nodeIds.has(node.id)) { errors.push(...) } else { nodeIds.add(node.id) },
\* inside if (node.id)
checkNodeId(id, index, acc) ==
    IF ~truthy(id) THEN acc
    ELSE IF id \in acc.seenIds
         THEN pushError(acc, ErrAt("DUPLICATE_NODE_ID", index))
         ELSE [acc EXCEPT !.seenIds = @ \cup {id}]

\* the same for nodeNames and node.name.trim().toLowerCase(), a warning
checkNodeName(name, index, acc) ==
    IF ~truthy(name) THEN acc
    ELSE IF toLowerCase(trim(name.s)) \in acc.seenNames
         THEN pushWarning(acc, WarnAt("DUPLICATE_NODE_NAME", index))
         ELSE [acc EXCEPT !.seenNames = @ \cup {toLowerCase(trim(name.s))}]

\* if (node.name) { ... }: node.name.trim is not a function on a number
checkNodeNameUse(name, index, acc) ==
    IF truthy(name) /\ name.k # "str" THEN throw(acc)
    ELSE pushWarningIf(truthy(name) /\ Len(name.s) > MAX_NODE_NAME_LENGTH,
                       checkNodeName(name, index, acc),
                       WarnAt("LONG_NODE_NAME", index))

\* if (node.type && !validTypes.includes(node.type))
checkNodeType(type, index, acc) ==
    IF acc.threw THEN acc
    ELSE pushWarningIf(truthy(type) /\ ~isOneOf(type, validNodeTypes),
                       acc, WarnAt("UNKNOWN_NODE_TYPE", index))

validateNode(node, index, acc) ==
    checkNodeType(opt(node, "type"), index,
        checkNodeNameUse(opt(node, "name"), index,
            checkNodeId(opt(node, "id"), index,
                pushErrorIf(~truthy(opt(node, "type")) \/ opt(node, "type").k # "str",
                    pushErrorIf(notValidString(opt(node, "name")),
                        pushErrorIf(notValidString(opt(node, "id")), acc,
                                    ErrAt("MISSING_NODE_ID", index)),
                        ErrAt("MISSING_NODE_NAME", index)),
                    ErrAt("MISSING_NODE_TYPE", index)))))

forEachNode(items, i, acc) ==
    IF i > Len(items) \/ acc.threw THEN acc
    ELSE forEachNode(items, i + 1, validateNode(items[i], i - 1, acc))

\* if (nodes.length > MAX_NODES), after the loop
checkNodeCount(items, acc) ==
    IF acc.threw THEN acc
    ELSE pushWarningIf(Len(items) > MAX_NODES, acc, Warn("TOO_MANY_NODES"))

\* this.validateNodes(data.nodes, ...): reading data.nodes raises on null;
\* if (!nodes || !Array.isArray(nodes)) return
validateNodes(data, acc) ==
    IF propThrows(data) THEN throw(acc)
    ELSE IF nodesOf(data).k # "arr" THEN acc
    ELSE checkNodeCount(nodesOf(data).items, forEachNode(nodesOf(data).items, 1, acc))

\* `${link.source}->${link.target}`
render(v) == IF v.k = "undef" THEN <<"u", "n", "d", "e", "f", "i", "n", "e", "d">> ELSE v.s
linkKeyOf(source, target) == render(source) \o <<"-", ">">> \o render(target)

\* if (link.source && link.target) { duplicate and reverse-key checks }
checkLinkKey(source, target, index, acc) ==
    IF ~(truthy(source) /\ truthy(target)) THEN acc
    ELSE IF linkKeyOf(source, target) \in acc.linkSet
         THEN pushWarning(acc, WarnAt("DUPLICATE_LINK", index))
         ELSE pushWarningIf(
                  linkKeyOf(target, source)
                      \in (acc.linkSet \cup {linkKeyOf(source, target)}),
                  [acc EXCEPT !.linkSet = @ \cup {linkKeyOf(source, target)}],
                  WarnAt("BIDIRECTIONAL_LINK", index))

checkLinkEnds_sourceOnly(source, target, index, nodeIds, acc) ==
    pushWarningIf(truthy(source) /\ truthy(target) /\ source = target,
        pushErrorIf(truthy(source) /\ source \notin nodeIds,
            pushErrorIf(~truthy(target) \/ target.k # "str",
                pushErrorIf(~truthy(source) \/ source.k # "str", acc,
                            ErrAt("MISSING_LINK_SOURCE", index)),
                ErrAt("MISSING_LINK_TARGET", index)),
            ErrAt("INVALID_LINK_SOURCE", index)),
        WarnAt("SELF_REFERENCE", index))

checkLinkEnds_selfError(source, target, index, nodeIds, acc) ==
    pushErrorIf(truthy(source) /\ truthy(target) /\ source = target,
        pushErrorIf(truthy(target) /\ target \notin nodeIds,
            pushErrorIf(truthy(source) /\ source \notin nodeIds,
                pushErrorIf(~truthy(target) \/ target.k # "str",
                    pushErrorIf(~truthy(source) \/ source.k # "str", acc,
                                ErrAt("MISSING_LINK_SOURCE", index)),
                    ErrAt("MISSING_LINK_TARGET", index)),
                ErrAt("INVALID_LINK_SOURCE", index)),
            ErrAt("INVALID_LINK_TARGET", index)),
        ErrAt("SELF_REFERENCE", index))

\* the checks of link.source and link.target, in the order of the code
checkLinkEnds(source, target, index, nodeIds, acc) ==
    pushWarningIf(truthy(source) /\ truthy(target) /\ source = target,
        pushErrorIf(truthy(target) /\ target \notin nodeIds,
            pushErrorIf(truthy(source) /\ source \notin nodeIds,
                pushErrorIf(~truthy(target) \/ target.k # "str",
                    pushErrorIf(~truthy(source) \/ source.k # "str", acc,
                                ErrAt("MISSING_LINK_SOURCE", index)),
                    ErrAt("MISSING_LINK_TARGET", index)),
                ErrAt("INVALID_LINK_SOURCE", index)),
            ErrAt("INVALID_LINK_TARGET", index)),
        WarnAt("SELF_REFERENCE", index))

validateLink(link, index, nodeIds, acc) ==
    pushWarningIf(truthy(opt(link, "type")) /\ ~isOneOf(opt(link, "type"), validLinkTypes),
        checkLinkKey(opt(link, "source"), opt(link, "target"), index,
            checkLinkEnds(opt(link, "source"), opt(link, "target"), index, nodeIds, acc)),
        WarnAt("UNKNOWN_LINK_TYPE", index))

forEachLink(items, i, nodeIds, acc) ==
    IF i > Len(items) \/ acc.threw THEN acc
    ELSE forEachLink(items, i + 1, nodeIds, validateLink(items[i], i - 1, nodeIds, acc))

hasNullEntry(field) == \E i \in DOMAIN field.items : field.items[i].k = "null"

\* this.validateLinks(data.links, data.nodes, ...):
\* if (!links || !Array.isArray(links)) return;
\* nodeIds = new Set(nodes?.map(n => n.id) || [])
validateLinks(data, acc) ==
    IF acc.threw \/ linksOf(data).k # "arr" THEN acc
    ELSE IF nodesOf(data).k = "obj" \/ hasNullEntry(nodesOf(data))
         THEN throw(acc)              \* nodes.map is not a function, n.id of null
    ELSE pushWarningIf(Len(linksOf(data).items) > MAX_LINKS,
             forEachLink(linksOf(data).items, 1,
                 {nodesOf(data).items[i].id : i \in DOMAIN nodesOf(data).items}, acc),
             Warn("TOO_MANY_LINKS"))

-----------------------------------------------------------------------------
(* DataValidator.detectCircularDependencies                                *)
(* nodeItems and linkItems hold no null entry (the callers' loops raise    *)
(* on one before this is reached)                                          *)

\* graph.get(node) || []: the targets of the links leaving node, in order
RECURSIVE neighborsOf(_, _)
neighborsOf(linkItems, node) ==
    IF linkItems = <<>> THEN <<>>
    ELSE (IF Head(linkItems).source = node THEN <<Head(linkItems).target>> ELSE <<>>)
         \o neighborsOf(Tail(linkItems), node)

indexOf(path, node) == CHOOSE i \in DOMAIN path :
                           path[i] = node /\ \A j \in 1..(i - 1) : path[j] # node

\* ds = [visited, recursionStack, cycles, trace]; trace is the history of the
\* calls of dfs: its arguments and which of its three branches the call took
called(ds, node, path, branch) ==
    [ds EXCEPT !.trace = Append(@, [node |-> node, path |-> path, branch |-> branch])]

RECURSIVE dfs(_, _, _, _)
RECURSIVE dfsNeighbors(_, _, _, _, _)

dfs_open(linkItems, node, path, ds) ==
    IF node \in ds.recursionStack
    THEN IF \E i \in DOMAIN path : path[i] = node
         THEN [called(ds, node, path, "onStack") EXCEPT !.cycles =
                  Append(@, SubSeq(path, indexOf(path, node), Len(path)))]
         ELSE called(ds, node, path, "onStack")
    ELSE IF node \in ds.visited THEN called(ds, node, path, "visited")
    ELSE LET entered == [called(ds, node, path, "expand") EXCEPT
                                   !.visited = @ \cup {node},
                                   !.recursionStack = @ \cup {node}]
             explored == dfsNeighbors(linkItems, neighborsOf(linkItems, node),
                                      node, path, entered)
         IN  [explored EXCEPT !.recursionStack = @ \ {node}]

dfs_revisit(linkItems, node, path, ds) ==
    IF node \in ds.recursionStack
    THEN IF \E i \in DOMAIN path : path[i] = node
         THEN [called(ds, node, path, "onStack") EXCEPT !.cycles =
                  Append(@, Append(SubSeq(path, indexOf(path, node), Len(path)), node))]
         ELSE called(ds, node, path, "onStack")
    ELSE LET entered == [called(ds, node, path, "expand") EXCEPT
                                   !.visited = @ \cup {node},
                                   !.recursionStack = @ \cup {node}]
             explored == dfsNeighbors(linkItems, neighborsOf(linkItems, node),
                                      node, path, entered)
         IN  [explored EXCEPT !.recursionStack = @ \ {node}]

dfs(linkItems, node, path, ds) ==
    IF node \in ds.recursionStack
    THEN IF \E i \in DOMAIN path : path[i] = node
         THEN [called(ds, node, path, "onStack") EXCEPT !.cycles =
                  Append(@, Append(SubSeq(path, indexOf(path, node), Len(path)), node))]
         ELSE called(ds, node, path, "onStack")
    ELSE IF node \in ds.visited THEN called(ds, node, path, "visited")
    ELSE LET entered == [called(ds, node, path, "expand") EXCEPT
                                   !.visited = @ \cup {node},
                                   !.recursionStack = @ \cup {node}]
             explored == dfsNeighbors(linkItems, neighborsOf(linkItems, node),
                                      node, path, entered)
         IN  [explored EXCEPT !.recursionStack = @ \ {node}]

\* for (const neighbor of neighbors) dfs(neighbor, [...path, node]): the
\* last neighbour is visited in the state the earlier ones leave
dfsNeighbors(linkItems, neighbors, node, path, ds) ==
    IF neighbors = <<>> THEN ds
    ELSE dfs(linkItems, neighbors[Len(neighbors)], Append(path, node),
             dfsNeighbors(linkItems, SubSeq(neighbors, 1, Len(neighbors) - 1),
                          node, path, ds))

RECURSIVE dfsRoots(_, _, _, _)
dfsRoots_firstOnly(linkItems, nodeItems, i, ds) ==
    IF i > Len(nodeItems) \/ i > 1 THEN ds
    ELSE dfs(linkItems, nodeItems[i].id, <<>>, ds)

dfsRoots(linkItems, nodeItems, i, ds) ==
    IF i > Len(nodeItems) THEN ds
    ELSE IF nodeItems[i].id \in ds.visited
         THEN dfsRoots(linkItems, nodeItems, i + 1, ds)
         ELSE dfsRoots(linkItems, nodeItems, i + 1,
                       dfs(linkItems, nodeItems[i].id, <<>>, ds))

firstN(seq, n) == SubSeq(seq, 1, IF Len(seq) < n THEN Len(seq) ELSE n)

searchOf_knownSources(nodeItems, linkItems) ==
    dfsRoots(SelectSeq(linkItems,
                       LAMBDA l : \E i \in DOMAIN nodeItems : nodeItems[i].id = l.source),
             nodeItems, 1,
             [visited |-> {}, recursionStack |-> {}, cycles |-> <<>>, trace |-> <<>>])

\* the state of the search when nodes.forEach is over
searchOf(nodeItems, linkItems) ==
    dfsRoots(linkItems, nodeItems, 1,
             [visited |-> {}, recursionStack |-> {}, cycles |-> <<>>, trace |-> <<>>])

detectCircularDependencies(nodeItems, linkItems) ==
    firstN(searchOf(nodeItems, linkItems).cycles, 10)

-----------------------------------------------------------------------------
(* DataValidator.calculateMetrics, getEmptyMetrics                         *)

NoCounts == [t \in {} |-> 0]

\* the key a value has as a property name
keyOf(v) == render(v)

countByType(items) ==
    [t \in {keyOf(items[i].type) : i \in DOMAIN items} |->
        Cardinality({i \in DOMAIN items : keyOf(items[i].type) = t})]

complexityOf_floor(nodeCount, linkCount, circularDependencies) ==
    IF nodeCount > 0
    THEN (nodeCount * nodeCount + 10 * linkCount + 5 * circularDependencies * nodeCount)
         \div nodeCount
    ELSE 5 * circularDependencies

complexityOf_inverted(nodeCount, linkCount, circularDependencies) ==
    IF linkCount > 0
    THEN (2 * (nodeCount * linkCount + 10 * nodeCount
               + 5 * circularDependencies * linkCount) + linkCount)
         \div (2 * linkCount)
    ELSE nodeCount + 5 * circularDependencies

\* Math.round(nodeCount + avgConnections * 10 + circularDependencies * 5)
complexityOf(nodeCount, linkCount, circularDependencies) ==
    IF nodeCount > 0
    THEN (2 * (nodeCount * nodeCount + 10 * linkCount
               + 5 * circularDependencies * nodeCount) + nodeCount)
         \div (2 * nodeCount)
    ELSE 5 * circularDependencies

getEmptyMetrics ==
    [totalNodes |-> 0, totalLinks |-> 0, orphanedNodes |-> 0,
     circularDependencies |-> 0, nodesByType |-> NoCounts,
     linksByType |-> NoCounts, complexityScore |-> 0]

\* data.nodes?.forEach(node => node.type ...) and the like raise on a
\* non-array object and on a null entry
metricsThrows(data) ==
    \/ propThrows(data)
    \/ nodesOf(data).k = "obj" \/ hasNullEntry(nodesOf(data))
    \/ linksOf(data).k = "obj" \/ hasNullEntry(linksOf(data))

endpointSet_sources(linkItems) == {linkItems[i].source : i \in DOMAIN linkItems}

\* connectedNodes.add(link.source); connectedNodes.add(link.target)
endpointSet(linkItems) ==
    {linkItems[i].source : i \in DOMAIN linkItems}
    \cup {linkItems[i].target : i \in DOMAIN linkItems}

\* the ValidationMetrics object, given the number of cycles found
metricsOf(nodeItems, linkItems, circularDependencies) ==
    [totalNodes |-> Len(nodeItems),
     totalLinks |-> Len(linkItems),
     orphanedNodes |->
         Cardinality({i \in DOMAIN nodeItems :
                         nodeItems[i].id \notin endpointSet(linkItems)}),
     circularDependencies |-> circularDependencies,
     nodesByType |-> countByType(nodeItems),
     linksByType |-> countByType(linkItems),
     complexityScore |->
         complexityOf(Len(nodeItems), Len(linkItems), circularDependencies)]

calculateMetrics(data) ==
    metricsOf(nodesOf(data).items, linksOf(data).items,
              Len(detectCircularDependencies(nodesOf(data).items, linksOf(data).items)))

-----------------------------------------------------------------------------
(* DataValidator.validateRelationships, validatePerformance                *)

idsOf(items) == [i \in DOMAIN items |-> items[i].id]

\* nodes.filter(node => !connectedNodes.has(node.id))
orphansOf(nodeItems, linkItems) ==
    LET connectedNodes ==
            {linkItems[i].source : i \in {j \in DOMAIN linkItems :
                                             truthy(linkItems[j].source)}}
            \cup {linkItems[i].target : i \in {j \in DOMAIN linkItems :
                                                  truthy(linkItems[j].target)}}
        isOrphan(n) == n.id \notin connectedNodes
    IN  SelectSeq(nodeItems, isOrphan)

\* if (orphanedNodes.length > 0) warnings.push(...)
warnOrphans(orphanedNodes, acc) ==
    pushWarningIf(Len(orphanedNodes) > 0, acc,
        WarnNodes("ORPHANED_NODES", Len(orphanedNodes),
                  idsOf(firstN(orphanedNodes, 5))))

\* if (circularDeps.length > 0) warnings.push(...)
warnCycles(circularDeps, acc) ==
    pushWarningIf(Len(circularDeps) > 0, acc,
        [code |-> "CIRCULAR_DEPENDENCIES", count |-> Len(circularDeps),
         cycles |-> firstN(circularDeps, 3)])

validateRelationships(data, acc) ==
    IF acc.threw THEN acc
    ELSE IF nodesOf(data).k = "undef" \/ linksOf(data).k = "undef" THEN acc
    ELSE IF linksOf(data).k = "obj" \/ hasNullEntry(linksOf(data)) THEN throw(acc)
    ELSE IF nodesOf(data).k = "obj" \/ hasNullEntry(nodesOf(data)) THEN throw(acc)
    ELSE warnCycles(
             detectCircularDependencies(nodesOf(data).items, linksOf(data).items),
             warnOrphans(orphansOf(nodesOf(data).items, linksOf(data).items), acc))

\* connectionCounts: one entry per endpoint value, in first-seen order
RECURSIVE countConnections(_, _)
countConnections(endpoints, counts) ==
    IF endpoints = <<>> THEN counts
    ELSE IF mapHas(counts, Head(endpoints))
         THEN countConnections(Tail(endpoints),
                  mapSet(counts, Head(endpoints), mapGet(counts, Head(endpoints)) + 1))
         ELSE countConnections(Tail(endpoints), mapSet(counts, Head(endpoints), 0 + 1))

RECURSIVE endpointsOf(_)
endpointsOf(linkItems) ==
    IF linkItems = <<>> THEN <<>>
    ELSE <<Head(linkItems).source, Head(linkItems).target>> \o endpointsOf(Tail(linkItems))

\* stable insertion of e into a list sorted by descending value
RECURSIVE insertDesc(_, _)
insertDesc(sorted, e) ==
    IF sorted = <<>> THEN <<e>>
    ELSE IF Head(sorted).value >= e.value
         THEN <<Head(sorted)>> \o insertDesc(Tail(sorted), e)
         ELSE <<e>> \o sorted

\* .sort((a, b) => b[1] - a[1]), a stable sort
RECURSIVE sortDesc(_)
sortDesc(entries) ==
    IF entries = <<>> THEN <<>>
    ELSE insertDesc(sortDesc(SubSeq(entries, 1, Len(entries) - 1)),
                    entries[Len(entries)])

keysOf(entries) == [i \in DOMAIN entries |-> entries[i].key]

\* if (metrics.complexityScore > 100) warnings.push(...)
warnComplexity(metrics, acc) ==
    pushWarningIf(metrics.complexityScore > 100, acc,
                  [code |-> "HIGH_COMPLEXITY", score |-> metrics.complexityScore])

highlyConnectedOf_atLeast(linkItems) ==
    LET isHigh(e) == e.value >= 10
    IN  sortDesc(SelectSeq(countConnections(endpointsOf(linkItems), <<>>), isHigh))

\* .filter(([_, count]) => count > 10).sort(...)
highlyConnectedOf(linkItems) ==
    LET isHigh(e) == e.value > 10
    IN  sortDesc(SelectSeq(countConnections(endpointsOf(linkItems), <<>>), isHigh))

\* if (highlyConnected.length > 0) warnings.push(...)
warnHubs(highlyConnected, acc) ==
    pushWarningIf(Len(highlyConnected) > 0, acc,
        WarnNodes("HIGHLY_CONNECTED_NODES", Len(highlyConnected),
                  keysOf(firstN(highlyConnected, 3))))

validatePerformance(data, acc) ==
    IF acc.threw THEN acc
    ELSE IF metricsThrows(data) THEN throw(acc)
    ELSE IF linksOf(data).k # "arr"      \* data.links.forEach of undefined
         THEN throw(warnComplexity(calculateMetrics(data), acc))
    ELSE warnHubs(highlyConnectedOf(linksOf(data).items),
                  warnComplexity(calculateMetrics(data), acc))

-----------------------------------------------------------------------------
(* DataValidator.validate *)

\* metrics: this.calculateMetrics(data), evaluated inside the try block
returnMetrics(data, acc) ==
    IF acc.threw \/ ~metricsThrows(data) THEN acc ELSE throw(acc)

\* the statements of the try block, up to the first one that raises
validateStages(data) ==
    returnMetrics(data,
        validatePerformance(data,
            validateRelationships(data,
                validateLinks(data,
                    validateNodes(data,
                        validateBasicStructure(data, NewAcc))))))

resultOf_uncaught(data, acc) ==
    [raised |-> acc.threw,
     isValid |-> acc.errors = <<>>,
     errors |-> acc.errors,
     warnings |-> acc.warnings,
     metrics |-> IF acc.threw THEN getEmptyMetrics ELSE calculateMetrics(data)]

resultOf_silent(data, acc) ==
    [raised |-> FALSE,
     isValid |-> ~acc.threw /\ acc.errors = <<>>,
     errors |-> acc.errors,
     warnings |-> acc.warnings,
     metrics |-> IF acc.threw THEN getEmptyMetrics ELSE calculateMetrics(data)]

resultOf_strict(data, acc) ==
    IF acc.threw
    THEN [raised |-> FALSE,
          isValid |-> FALSE,
          errors |-> Append(acc.errors, Err("VALIDATION_FAILED")),
          warnings |-> acc.warnings,
          metrics |-> getEmptyMetrics]
    ELSE [raised |-> FALSE,
          isValid |-> acc.errors = <<>> /\ acc.warnings = <<>>,
          errors |-> acc.errors,
          warnings |-> acc.warnings,
          metrics |-> calculateMetrics(data)]

\* the ValidationResult: the return of the try block, or of the catch block
\* after errors.push(VALIDATION_FAILED)
resultOf(data, acc) ==
    IF acc.threw
    THEN [raised |-> FALSE,
          isValid |-> FALSE,
          errors |-> Append(acc.errors, Err("VALIDATION_FAILED")),
          warnings |-> acc.warnings,
          metrics |-> getEmptyMetrics]
    ELSE [raised |-> FALSE,
          isValid |-> acc.errors = <<>>,
          errors |-> acc.errors,
          warnings |-> acc.warnings,
          metrics |-> calculateMetrics(data)]

validate(data) == resultOf(data, validateStages(data))

-----------------------------------------------------------------------------
(* Inputs *)

RECURSIVE SeqsUpTo(_, _)
SeqsUpTo(S, n) ==
    IF n = 0 THEN {<<>>}
    ELSE LET shorter == SeqsUpTo(S, n - 1)
         IN  shorter \cup {Append(q, x) : q \in shorter, x \in S}

Row(sol, input, hli, output, hlo) ==
    [Solutions |-> sol, SolutionInput |-> input, HighLevelInput |-> hli,
     SolutionOutput |-> output, HighLevelOutput |-> hlo]

Blank == Str(<<>>)

\* rows as the sheet decoder delivers them: every cell a string
StringRows ==
    {Row(sol, input, Blank, output, Blank) :
        sol \in {Blank, Str(<<"A">>), Str(<<"!">>)},
        input \in {Blank, Str(<<" ", "a">>), Str(<<"B">>)},
        output \in {Blank, Str(<<"B">>)}}
    \cup
    {Row(Str(<<"A">>), Str(<<"B">>), hli, Str(<<"C">>), hlo) :
        hli \in {Str(<<"X">>), Str(<<" ", "X">>), Str(<<" ">>)},
        hlo \in {Blank, Str(<<"X">>)}}
    \cup
    {Row(Str(<<" ">>), Str(<<"B">>), Blank, Str(<<"C">>), Blank)}

\* rows with a cell that is not a string (0 passes validateDataStructure),
\* or is null
OddRows ==
    {Row(Num0, Str(<<"B">>), Blank, Str(<<"C">>), Blank),
     Row(Str(<<"A">>), Num0, Str(<<"X">>), Str(<<"C">>), Blank),
     Row(Str(<<"A">>), Str(<<"B">>), Str(<<"X">>), Num0, Blank),
     Row(Str(<<"A">>), Str(<<"B">>), Num0, Str(<<"C">>), Blank),
     Row(Str(<<"A">>), Str(<<"B">>), Blank, Str(<<"C">>), Num0),
     Row(Blank, Num0, Blank, Blank, Blank),
     Row(Str(<<"A">>), Undef, Undef, Str(<<"C">>), Blank)}

\* rows with a name that holds a letter outside a-zA-Z
UnicodeRows ==
    {Row(Str(<<"k">>), Str(<<KelvinSign>>), Blank, Blank, Blank),
     Row(Str(<<KelvinSign, "a">>), Blank, Blank, Str(<<"K", "a">>), Blank),
     Row(Str(<<"k", "a">>), Str(<<"B">>), Blank, Blank, Blank)}

Node(id, name, type) == [k |-> "obj", id |-> id, name |-> name, type |-> type]
Link(source, target, type) ==
    [k |-> "obj", source |-> source, target |-> target, type |-> type]
NullEntry == [k |-> "null"]

NodeEntries ==
    {NullEntry,
     Node(Str(<<"a">>), Str(<<"A">>), Str(<<"service">>)),
     Node(Str(<<"b">>), Str(<<"B">>), Str(<<"interface">>)),
     Node(Str(<<"c">>), Str(<<" ", "a">>), Str(<<"gateway">>)),
     Node(Str(<<" ">>), Str(<<>>), Undef),
     Node(Num5, Num5, Num5)}

LinkEntries ==
    {NullEntry,
     Link(Str(<<"a">>), Str(<<"b">>), Str(<<"dependency">>)),
     Link(Str(<<"b">>), Str(<<"a">>), Str(<<"dependency">>)),
     Link(Str(<<"a">>), Str(<<"a">>), Str(<<"uses">>)),
     Link(Undef, Str(<<"a">>), Undef),
     Link(Str(<<"a">>), Str(<<>>), Str(<<"dependency">>)),
     Link(Num5, Str(<<"b">>), Str(<<"calls">>))}

Fields(entries, n) == {UndefField, ObjField} \cup {Arr(q) : q \in SeqsUpTo(entries, n)}

NullData == [k |-> "null", nodes |-> UndefField, links |-> UndefField]

\* the values validate is handed: null, a primitive, or an object whose
\* nodes and links hold at most maxNodes and maxLinks entries
ValidateInputs(maxNodes, maxLinks) ==
    {[k |-> kind, nodes |-> UndefField, links |-> UndefField] :
        kind \in {"null", "prim0", "prim"}}
    \cup
    {[k |-> "obj", nodes |-> nf, links |-> lf] :
        nf \in Fields(NodeEntries, maxNodes),
        lf \in Fields(LinkEntries, maxLinks)}

\* n copies of x
Repeat(x, n) == [i \in 1..n |-> x]

ScoreNodes == <<Node(Str(<<"a">>), Str(<<"A">>), Str(<<"service">>)),
                Node(Str(<<"b">>), Str(<<"B">>), Str(<<"interface">>)),
                Node(Str(<<"c">>), Str(<<"C">>), Str(<<"interface">>)),
                Node(Str(<<"d">>), Str(<<"D">>), Str(<<"module">>)),
                Node(Str(<<"e">>), Str(<<"E">>), Str(<<"class">>)),
                Node(Str(<<"f">>), Str(<<"F">>), Str(<<"utility">>))>>

\* graphs of maxNodes nodes and maxLinks links at most: the links are
\* copies of a -> b, the first one being the cycle a -> a when looped
ScoreInputs(maxNodes, maxLinks) ==
    {[k |-> "obj",
      nodes |-> Arr(SubSeq(ScoreNodes, 1, n)),
      links |-> Arr((IF looped /\ l > 0
                     THEN <<Link(Str(<<"a">>), Str(<<"a">>), Str(<<"uses">>))>>
                     ELSE <<>>)
                    \o Repeat(Link(Str(<<"a">>), Str(<<"b">>), Str(<<"dependency">>)),
                              IF looped /\ l > 0 THEN l - 1 ELSE l))] :
        n \in 0..maxNodes, l \in 0..maxLinks, looped \in BOOLEAN}

HubLink(source, target) == Link(source, target, Str(<<"dependency">>))

\* graphs whose links are copies of a -> b, of c -> d and of a -> c, in
\* either order, maxCopies of one link at most; the nodes are a, b, c (d is
\* no node), or one node whose name is a number
HubInputs(maxCopies) ==
    {[k |-> "obj",
      nodes |-> Arr(IF typed THEN SubSeq(ScoreNodes, 1, 3) ELSE <<Node(Num5, Num5, Num5)>>),
      links |-> Arr(IF reversed
                    THEN Repeat(HubLink(Str(<<"a">>), Str(<<"c">>)), ac)
                         \o Repeat(HubLink(Str(<<"c">>), Str(<<"d">>)), cd)
                         \o Repeat(HubLink(Str(<<"a">>), Str(<<"b">>)), ab)
                    ELSE Repeat(HubLink(Str(<<"a">>), Str(<<"b">>)), ab)
                         \o Repeat(HubLink(Str(<<"c">>), Str(<<"d">>)), cd)
                         \o Repeat(HubLink(Str(<<"a">>), Str(<<"c">>)), ac))] :
        typed \in BOOLEAN, reversed \in BOOLEAN,
        ab \in {0, maxCopies - 6, maxCopies - 1, maxCopies},
        cd \in {0, maxCopies - 1, maxCopies},
        ac \in {0, 1, 2}}

CycleLink(source, target) ==
    Link(Str(<<source>>), Str(<<target>>), Str(<<"dependency">>))

\* links among the ids a, b, c and x; x is never the id of a node
CycleLinks ==
    {CycleLink("a", "a"), CycleLink("a", "b"), CycleLink("b", "a"),
     CycleLink("b", "c"), CycleLink("c", "a"), CycleLink("a", "x"),
     CycleLink("x", "a"), CycleLink("x", "x")}

\* graphs of maxLinks links at most whose nodes are a, or a, b, c, or c, b
CycleInputs(maxLinks) ==
    {[k |-> "obj", nodes |-> Arr(nodeItems), links |-> Arr(linkItems)] :
        nodeItems \in {<<ScoreNodes[1]>>, SubSeq(ScoreNodes, 1, 3),
                       <<ScoreNodes[3], ScoreNodes[2]>>},
        linkItems \in SeqsUpTo(CycleLinks, maxLinks)}

\* a node whose id is the empty string, the nodes a to e, a node without id
OrphanNodes ==
    <<Node(Blank, Str(<<"N">>), Str(<<"service">>))>>
    \o SubSeq(ScoreNodes, 1, 5)
    \o <<Node(Undef, Str(<<"U">>), Str(<<"service">>))>>

\* links with an empty or a missing end among them
OrphanLinks ==
    {Link(Str(<<"a">>), Str(<<"b">>), Str(<<"dependency">>)),
     Link(Blank, Str(<<"a">>), Str(<<"dependency">>)),
     Link(Str(<<"c">>), Undef, Str(<<"dependency">>)),
     Link(Str(<<"e">>), Str(<<"e">>), Str(<<"uses">>))}

\* the first n of the nodes, and a few of the links
OrphanInputs(maxNodes, maxLinks) ==
    {[k |-> "obj",
      nodes |-> Arr(SubSeq(OrphanNodes, 1, IF n < Len(OrphanNodes) THEN n ELSE Len(OrphanNodes))),
      links |-> Arr(linkItems)] :
        n \in 0..maxNodes, linkItems \in SeqsUpTo(OrphanLinks, maxLinks)}

\* links between ids that hold the characters of the key separator: the
\* ids a->b, c, a, b->c, b
KeyLinks ==
    {Link(Str(<<"a", "-", ">", "b">>), Str(<<"c">>), Str(<<"dependency">>)),
     Link(Str(<<"a">>), Str(<<"b", "-", ">", "c">>), Str(<<"dependency">>)),
     Link(Str(<<"a">>), Str(<<"b">>), Str(<<"dependency">>)),
     Link(Str(<<"b">>), Str(<<"a">>), Str(<<"uses">>))}

KeyInputs(maxLinks) ==
    {[k |-> "obj", nodes |-> Arr(SubSeq(ScoreNodes, 1, 2)), links |-> Arr(linkItems)] :
        linkItems \in SeqsUpTo(KeyLinks, maxLinks)}

-----------------------------------------------------------------------------
(* ExcelParser.processFile                                                 *)
(*   file = [size, readable, wellFormed, sheets, rows]: the size in        *)
(*          megabytes, whether FileReader and XLSX.read succeed, the       *)
(*          sheets of the workbook (none | missing | ok) and the rows      *)
(*          sheet_to_json delivers (a cell Undef is an absent column)      *)
(*   job  = [pc, file, opts, cb, thrown, cbRaised, stages, data, result]   *)
(*          cb = none | free | hook is the onProgress argument             *)

DefaultMaxFileSize == 5
HookMaxFileSize == 10

RequiredColumns == {"Solutions", "SolutionInput", "SolutionOutput"}
Columns == RequiredColumns \cup {"HighLevelInput", "HighLevelOutput"}

NoError == [name |-> "none", code |-> "none", message |-> "none"]

\* new Error(message): an error object without a code
PlainError(message) == [name |-> "Error", code |-> "none", message |-> message]

\* createProcessingError(message, code): a new error that keeps the message
\* of what it was given and carries the code it was given
createProcessingError(error, code) ==
    [name |-> "ProcessingError", code |-> code, message |-> error.message]

Message(text) == [name |-> "string", code |-> "none", message |-> text]

\* Array.from(nodes.values()) and links, as the value handed to validate
componentDataOf(nodeMap, linkList) ==
    [k |-> "obj",
     nodes |-> Arr([i \in DOMAIN nodeMap |->
                      Node(Str(nodeMap[i].value.id), Str(nodeMap[i].value.name),
                           Str(<<nodeMap[i].value.type>>))]),
     links |-> Arr([i \in DOMAIN linkList |->
                      Link(Str(linkList[i].source), Str(linkList[i].target),
                           Str(<<linkList[i].type>>))])]

\* data.forEach((row, index) => { try { ... } catch { } })
RECURSIVE forEachRow(_, _, _)
forEachRow(rows, i, st) ==
    IF i > Len(rows) THEN st
    ELSE forEachRow(rows, i + 1, rowCallback(rows[i], i - 1, st))

transformToComponentData(rows) ==
    LET st == forEachRow(rows, 1,
                  [nodes |-> <<>>, links |-> <<>>, colorMap |-> <<>>,
                   calls |-> <<>>, upserts |-> <<>>, threw |-> FALSE])
    IN  componentDataOf(st.nodes, st.links)

NoData == [k |-> "none"]
Pending == [k |-> "pending"]
Resolved(data) == [k |-> "resolved", data |-> data]
Rejected(error) == [k |-> "rejected", error |-> error]

NoJob == [pc |-> "idle"]

\* the locals of processFile on entry, opts = {...DEFAULT_OPTIONS, ...options}
NewJob(file, opts, cb) ==
    [pc |-> "size", file |-> file, opts |-> opts, cb |-> cb, thrown |-> NoError,
     cbRaised |-> FALSE, stages |-> <<>>, data |-> NoData, result |-> Pending]

\* a statement of the try block raises: control goes to the catch block
throwIn(j, error) == [j EXCEPT !.pc = "catch", !.thrown = error]

goto(j, pc) == [j EXCEPT !.pc = pc]

validateFileSize(j) ==
    IF j.file.size > j.opts.maxFileSize
    THEN throwIn(j, createProcessingError(Message("File size exceeds maximum"),
                                          "FILE_TOO_LARGE"))
    ELSE goto(j, "cbReading")

\* the five onProgress?.({stage, progress, message}) statements
CallbackPcs == {"cbReading", "cbParsing", "cbValidating", "cbTransforming",
                "cbComplete"}

progressAt_flat(pc) ==
    CASE pc = "cbReading" -> [stage |-> "reading", progress |-> 10]
      [] pc = "cbParsing" -> [stage |-> "parsing", progress |-> 30]
      [] pc = "cbValidating" -> [stage |-> "validating", progress |-> 60]
      [] pc = "cbTransforming" -> [stage |-> "validating", progress |-> 60]
      [] pc = "cbComplete" -> [stage |-> "complete", progress |-> 100]

progressAt(pc) ==
    CASE pc = "cbReading" -> [stage |-> "reading", progress |-> 10]
      [] pc = "cbParsing" -> [stage |-> "parsing", progress |-> 30]
      [] pc = "cbValidating" -> [stage |-> "validating", progress |-> 60]
      [] pc = "cbTransforming" -> [stage |-> "transforming", progress |-> 80]
      [] pc = "cbComplete" -> [stage |-> "complete", progress |-> 100]

afterCallback(pc) ==
    CASE pc = "cbReading" -> "read"
      [] pc = "cbParsing" -> "parse"
      [] pc = "cbValidating" -> "validate"
      [] pc = "cbTransforming" -> "transform"
      [] pc = "cbComplete" -> "return"

\* what the callback raises: the hook's callback raises
\* new Error('Processing cancelled')
callbackError(cb) ==
    PlainError(IF cb = "hook" THEN "Processing cancelled" ELSE "raised by the callback")

onProgress_swallow(j, raises) ==
    IF j.cb = "none" THEN goto(j, afterCallback(j.pc))
    ELSE IF raises
         THEN goto([j EXCEPT !.cbRaised = TRUE, !.stages = Append(@, progressAt(j.pc))],
                   afterCallback(j.pc))
    ELSE goto([j EXCEPT !.stages = Append(@, progressAt(j.pc))], afterCallback(j.pc))

\* onProgress?.(...): nothing without a callback; stages holds what the
\* callback was invoked with; a callback that raises raises inside the try
\* block
onProgress(j, raises) ==
    IF j.cb = "none" THEN goto(j, afterCallback(j.pc))
    ELSE IF raises
         THEN throwIn([j EXCEPT !.cbRaised = TRUE, !.stages = Append(@, progressAt(j.pc))],
                      callbackError(j.cb))
    ELSE goto([j EXCEPT !.stages = Append(@, progressAt(j.pc))], afterCallback(j.pc))

\* await this.readFileAsArrayBuffer(file)
readFileAsArrayBuffer(j) ==
    IF j.file.readable THEN goto(j, "cbParsing")
    ELSE throwIn(j, PlainError("File reading failed"))

parseWorkbook(j) ==
    IF j.file.wellFormed THEN goto(j, "extract")
    ELSE throwIn(j, createProcessingError(Message("Invalid Excel file format"),
                                          "INVALID_FORMAT"))

extractJSONData(j) ==
    IF j.file.sheets = "none"
    THEN throwIn(j, createProcessingError(Message("no sheets"), "NO_SHEETS"))
    ELSE IF j.file.sheets = "missing"
    THEN throwIn(j, createProcessingError(Message("no worksheet"), "WORKSHEET_ERROR"))
    ELSE IF j.file.rows = <<>>
    THEN throwIn(j, createProcessingError(Message("No data found"), "NO_DATA"))
    ELSE goto(j, "cbValidating")

\* Object.keys(firstRow) lacks a required column
missingColumns(row) == {c \in RequiredColumns : row[c].k = "undef"}

\* value && typeof value !== 'string', for some cell of some row
hasInvalidValue(rows) ==
    \E i \in DOMAIN rows : \E c \in Columns : truthy(rows[i][c]) /\ rows[i][c].k # "str"

\* if (opts.validateStructure) this.validateDataStructure(jsonData)
validateDataStructure(j) ==
    IF ~j.opts.validateStructure THEN goto(j, "cbTransforming")
    ELSE IF j.file.rows = <<>>
    THEN throwIn(j, createProcessingError(Message("No data rows found"), "NO_DATA"))
    ELSE IF missingColumns(j.file.rows[1]) # {}
    THEN throwIn(j, createProcessingError(Message("Missing required columns"),
                                          "MISSING_COLUMNS"))
    ELSE IF hasInvalidValue(j.file.rows)
    THEN throwIn(j, createProcessingError(Message("Invalid value type"),
                                          "INVALID_DATA_TYPE"))
    ELSE goto(j, "cbTransforming")

transformStep(j) ==
    goto([j EXCEPT !.data = transformToComponentData(j.file.rows)], "cbComplete")

\* return componentData
returnStep(j) == [j EXCEPT !.pc = "resolved", !.result = Resolved(j.data)]

\* catch (error) { throw this.createProcessingError(error, 'PROCESSING_FAILED') }
catchStep(j) ==
    [j EXCEPT !.pc = "rejected",
              !.result = Rejected(createProcessingError(j.thrown, "PROCESSING_FAILED"))]

\* the statement at j.pc when it is not a callback
statement(j) ==
    CASE j.pc = "size" -> validateFileSize(j)
      [] j.pc = "read" -> readFileAsArrayBuffer(j)
      [] j.pc = "parse" -> parseWorkbook(j)
      [] j.pc = "extract" -> extractJSONData(j)
      [] j.pc = "validate" -> validateDataStructure(j)
      [] j.pc = "transform" -> transformStep(j)
      [] j.pc = "return" -> returnStep(j)
      [] j.pc = "catch" -> catchStep(j)

StatementPcs == {"size", "read", "parse", "extract", "validate", "transform",
                 "return", "catch"}
SettledPcs == {"resolved", "rejected"}

\* processFile run to its end with callbacks that return normally
RECURSIVE runToEnd(_)
runToEnd(j) ==
    IF j.pc \in SettledPcs THEN j
    ELSE IF j.pc \in CallbackPcs THEN runToEnd(onProgress(j, FALSE))
    ELSE runToEnd(statement(j))

\* the outcome of processFile(file, opts) with no callback supplied
outcomeWithout(file, opts) == runToEnd(NewJob(file, opts, "none")).result

-----------------------------------------------------------------------------
(* useExcelProcessor                                                       *)
(*   hook = [pc, processing, progress, validationResult, error,            *)
(*           abortController, aborted, ret, busyRet, cancelled]            *)
(*   abortController: the state holds the controller of the running call;  *)
(*   aborted: controller.signal.aborted of the running call; ret: what the *)
(*   call returned; busyRet: what a call made while processing returned;   *)
(*   sets: the state setters the running call has called after its await   *)
(*   prior = [pc, job, aborted, ret, sets]: the call that was running when *)
(*   a new call began, its ExcelParser.processFile call, its controller    *)

HookNull == [k |-> "null"]
NotReturned == [k |-> "pending"]

HookIdle ==
    [pc |-> "idle", processing |-> FALSE, progress |-> HookNull,
     validationResult |-> HookNull, error |-> HookNull, abortController |-> FALSE,
     aborted |-> FALSE, ret |-> NotReturned, busyRet |-> NotReturned,
     cancelled |-> FALSE, sets |-> {}]

HookOptions == [maxFileSize |-> HookMaxFileSize, validateStructure |-> TRUE]

reset(h) ==
    [h EXCEPT !.processing = FALSE, !.progress = HookNull,
              !.validationResult = HookNull, !.error = HookNull,
              !.abortController = FALSE]

cancel(h) ==
    [h EXCEPT !.aborted = @ \/ h.abortController, !.abortController = FALSE,
              !.processing = FALSE, !.progress = HookNull, !.cancelled = TRUE]

\* reset(); setProcessing(true); setError(null);
\* const controller = new AbortController(); setAbortController(controller)
hookStart(h) ==
    [reset(h) EXCEPT !.pc = "awaiting", !.processing = TRUE, !.abortController = TRUE,
                     !.aborted = FALSE, !.sets = {}]

\* validation.warnings.map(w => w.message)
messagesOf(warnings) == [i \in DOMAIN warnings |-> warnings[i].code]

FileProcessingResult(data, warnings) ==
    [k |-> "result", data |-> data, warnings |-> warnings]

hookReturn(h, value) == [h EXCEPT !.pc = "done", !.ret = value]

hookResolved_validOnly(h, data) ==
    IF h.aborted THEN hookReturn(h, HookNull)
    ELSE LET validation == validate(data)
         IN  hookReturn([h EXCEPT !.validationResult = validation,
                                  !.processing = FALSE, !.abortController = FALSE,
                                  !.sets = @ \cup {"validationResult", "processing",
                                                   "abortController"}],
                        IF validation.isValid
                        THEN FileProcessingResult(data, messagesOf(validation.warnings))
                        ELSE HookNull)

\* the statements after the await, when ExcelParser.processFile resolved
hookResolved(h, data) ==
    IF h.aborted THEN hookReturn(h, HookNull)
    ELSE LET validation == validate(data)
         IN  hookReturn([h EXCEPT !.validationResult = validation,
                                  !.processing = FALSE, !.abortController = FALSE,
                                  !.sets = @ \cup {"validationResult", "processing",
                                                   "abortController"}],
                        FileProcessingResult(data, messagesOf(validation.warnings)))

hookRejected_unchecked(h, error) ==
    hookReturn([h EXCEPT !.error = error, !.processing = FALSE,
                         !.abortController = FALSE,
                         !.sets = @ \cup {"error", "processing", "abortController"}],
               HookNull)

\* the catch block, when ExcelParser.processFile rejected
hookRejected(h, error) ==
    IF h.aborted THEN hookReturn(h, HookNull)
    ELSE hookReturn([h EXCEPT !.error = error, !.processing = FALSE,
                              !.abortController = FALSE,
                              !.sets = @ \cup {"error", "processing", "abortController"}],
                    HookNull)

NoPrior == [pc |-> "none"]

\* a new call begins while the running one still awaits: the running call
\* keeps its own controller and its own ExcelParser.processFile call
supersede(h, j) ==
    [pc |-> "awaiting", job |-> j, aborted |-> h.aborted, ret |-> NotReturned,
     sets |-> {}]

\* the hook state as the earlier call sees it: the shared state, with the
\* earlier call's own controller and position
asPrior(h, p) ==
    [h EXCEPT !.pc = p.pc, !.aborted = p.aborted, !.ret = p.ret, !.sets = p.sets]

\* the earlier call's statements after its await, on the shared state
priorResume(h, p) ==
    IF p.job.result.k = "resolved" THEN hookResolved(asPrior(h, p), p.job.result.data)
    ELSE hookRejected(asPrior(h, p), p.job.result.error)

\* the shared state after the earlier call returned: what it set, with the
\* running call's own controller and position
afterPrior(h, r) ==
    [r EXCEPT !.pc = h.pc, !.aborted = h.aborted, !.ret = h.ret, !.sets = h.sets]

-----------------------------------------------------------------------------
(* Files *)

File(size, readable, wellFormed, sheets, rows) ==
    [size |-> size, readable |-> readable, wellFormed |-> wellFormed,
     sheets |-> sheets, rows |-> rows]

\* a complete row, a row whose Solutions sanitizes to the empty id, a row
\* without the Solutions column, a row with a number in a cell
FileRowKinds ==
    {Row(Str(<<"A">>), Str(<<"B">>), Str(<<"X">>), Str(<<"C">>), Blank),
     Row(Str(<<"!">>), Blank, Blank, Blank, Blank),
     Row(Undef, Str(<<"B">>), Blank, Str(<<"C">>), Blank),
     Row(Str(<<"A">>), Num5, Blank, Blank, Blank)}

FileSizes == {1, 7, 12}

Files(maxRows) ==
    {File(size, readable, wellFormed, sheets, rows) :
        size \in FileSizes, readable \in BOOLEAN, wellFormed \in BOOLEAN,
        sheets \in {"none", "missing", "ok"}, rows \in SeqsUpTo(FileRowKinds, maxRows)}

\* the files of a call that begins while an earlier one awaits: a workbook
\* with one complete row, and a file that cannot be read
RestartFiles ==
    {File(1, TRUE, TRUE, "ok",
          <<Row(Str(<<"A">>), Str(<<"B">>), Str(<<"X">>), Str(<<"C">>), Blank)>>),
     File(1, FALSE, TRUE, "ok", <<>>)}

-----------------------------------------------------------------------------
(* AppProvider: notifications                                              *)
(*   app = [notifications, timers, now, added, ticks, removals]            *)
(*   notifications: state.notifications; timers: the pending setTimeout    *)
(*   callbacks, each with the id it closes over and the time it is due;    *)
(*   now: Date.now(); removals: which notification left the list, and how  *)

DefaultDuration == 5000

Duration(n) == [k |-> "num", n |-> n]
NoDuration == [k |-> "undef", n |-> 0]

\* Omit<Notification, 'id'>
Note(title, duration) == [title |-> title, duration |-> duration]

NoNotifications ==
    [notifications |-> <<>>, timers |-> <<>>, now |-> 0, added |-> 0, ticks |-> 0,
     removals |-> {}]

DigitChars == <<"0", "1", "2", "3", "4", "5", "6", "7", "8", "9">>

\* Number.prototype.toString of a non-negative integer
RECURSIVE toString(_)
toString(n) ==
    IF n < 10 THEN <<DigitChars[n + 1]>>
    ELSE toString(n \div 10) \o <<DigitChars[(n % 10) + 1]>>

\* the ADD_NOTIFICATION, REMOVE_NOTIFICATION and CLEAR_NOTIFICATIONS cases
appReducer(notifications, action) ==
    CASE action.type = "ADD_NOTIFICATION" -> Append(notifications, action.payload)
      [] action.type = "REMOVE_NOTIFICATION" ->
            SelectSeq(notifications, LAMBDA n : n.id # action.payload)
      [] action.type = "CLEAR_NOTIFICATIONS" -> <<>>

dispatch(a, action) == [a EXCEPT !.notifications = appReducer(@, action)]

\* the notifications that were in the list of a and are not in the list of b
gone(a, b) ==
    {a.notifications[i] : i \in DOMAIN a.notifications}
        \ {b.notifications[i] : i \in DOMAIN b.notifications}

\* b, with a record of what left the list since a and of what removed it
logged(a, b, by) ==
    [b EXCEPT !.removals = @ \cup {[nth |-> n.nth, duration |-> n.duration, by |-> by] :
                                      n \in gone(a, b)}]

\* notification.duration !== 0
autoRemoves(duration) == ~(duration.k = "num" /\ duration.n = 0)

\* notification.duration || 5000
timeoutOf(duration) ==
    IF duration.k = "num" /\ duration.n # 0 THEN duration.n ELSE DefaultDuration

\* addNotification(notification): the id is Date.now().toString(); nth, the
\* number of the call, is kept for the record of removals only
addNotification(a, notification) ==
    LET id == toString(a.now)
        added == dispatch(a, [type |-> "ADD_NOTIFICATION",
                              payload |-> [id |-> id, title |-> notification.title,
                                           duration |-> notification.duration,
                                           nth |-> a.added + 1]])
    IN  [added EXCEPT
            !.added = @ + 1,
            !.timers = IF autoRemoves(notification.duration)
                       THEN Append(@, [id |-> id,
                                       due |-> a.now + timeoutOf(notification.duration)])
                       ELSE @]

removeNotification(a, id) ==
    logged(a, dispatch(a, [type |-> "REMOVE_NOTIFICATION", payload |-> id]), "removeNotification")

clearNotifications(a) ==
    logged(a, dispatch(a, [type |-> "CLEAR_NOTIFICATIONS"]), "clearNotifications")

\* the setTimeout callback at position i runs and is no longer pending
timerFires(a, i) ==
    logged(a,
           dispatch([a EXCEPT !.timers = SubSeq(@, 1, i - 1) \o SubSeq(@, i + 1, Len(@))],
                    [type |-> "REMOVE_NOTIFICATION", payload |-> a.timers[i].id]),
           "timer")

\* time passes
elapse(a, ms) == [a EXCEPT !.now = @ + ms, !.ticks = @ + (IF ms = 0 THEN 0 ELSE 1)]

\* the notification that reports the validation result
validationNote(validation) ==
    IF ~validation.isValid THEN Note("Validation failed", Duration(0))
    ELSE IF Len(validation.warnings) > 0
         THEN Note("Data processed with warnings", Duration(8000))
         ELSE Note("File processed successfully!", Duration(5000))

\* what the hook's processFile adds after its await, validate taking ms
\* milliseconds
validationNotifications(a, data, ms) ==
    addNotification(elapse(addNotification(a, Note("Validating data", Duration(3000))), ms),
                    validationNote(validate(data)))

\* graphs as ExcelParser.processFile resolves with
IngestedGraphs == {transformToComponentData(rows) : rows \in SeqsUpTo(FileRowKinds, 1)}

-----------------------------------------------------------------------------
(* State machine *)

NoResult == [none |-> TRUE]

NoString == [done |-> FALSE, value |-> <<>>]

Idle ==
    /\ phase = "idle"
    /\ runNo = 0
    /\ rowIndex = 0
    /\ nodes = <<>>
    /\ links = <<>>
    /\ colorMap = <<>>
    /\ lookups = <<>>
    /\ upserts = <<>>
    /\ rowsLog = <<>>
    /\ faults = <<>>
    /\ preNodes = <<>>
    /\ preLinks = <<>>
    /\ job = NoJob
    /\ hook = HookIdle
    /\ prior = NoPrior
    /\ app = NoNotifications

Init ==
    /\ Idle
    /\ sanIn = <<>>
    /\ sanOut = NoString
    /\ vdata = NullData
    /\ vres = NoResult

\* sanitizeId is about to be called on any string
InitSanitize ==
    /\ Idle
    /\ sanIn \in SanInputs(MaxStrLen)
    /\ sanOut = NoString
    /\ vdata = NullData
    /\ vres = NoResult

\* validate is about to be called on any value
InitValidate ==
    /\ Idle
    /\ sanIn = <<>>
    /\ sanOut = NoString
    /\ vdata \in ValidateInputs(MaxNodeItems, MaxLinkItems)
    /\ vres = NoResult

\* validate is about to be called on a graph of some size
InitScore ==
    /\ Idle
    /\ sanIn = <<>>
    /\ sanOut = NoString
    /\ vdata \in ScoreInputs(MaxScoreNodes, MaxScoreLinks)
    /\ vres = NoResult

\* validate is about to be called on a graph with repeated links
InitHubs ==
    /\ Idle
    /\ sanIn = <<>>
    /\ sanOut = NoString
    /\ vdata \in HubInputs(MaxHubCopies)
    /\ vres = NoResult

\* validate is about to be called on a small graph with any links
InitCycles ==
    /\ Idle
    /\ sanIn = <<>>
    /\ sanOut = NoString
    /\ vdata \in CycleInputs(MaxCycleLinks)
    /\ vres = NoResult

\* validate is about to be called on a graph with unconnected nodes
InitOrphans ==
    /\ Idle
    /\ sanIn = <<>>
    /\ sanOut = NoString
    /\ vdata \in OrphanInputs(MaxOrphanNodes, MaxOrphanLinks)
    /\ vres = NoResult

\* validate is about to be called on links between any id strings
InitKeys ==
    /\ Idle
    /\ sanIn = <<>>
    /\ sanOut = NoString
    /\ vdata \in KeyInputs(MaxKeyLinks)
    /\ vres = NoResult

\* the call of sanitizeId returns
SanitizeCall ==
    /\ ~sanOut.done
    /\ sanOut' = [done |-> TRUE, value |-> sanitizeId(sanIn)]
    /\ UNCHANGED <<sanIn, runVars, valVars, fileVars, noteVars>>

\* the call of DataValidator.validate returns
ValidateCall ==
    /\ phase = "idle"
    /\ vres = NoResult
    /\ vres' = validate(vdata)
    /\ UNCHANGED <<vdata, sanVars, runVars, fileVars, noteVars>>

\* transformToComponentData is entered: fresh nodes, links and colorMap
\* (the hook's processFile has reset its validationResult before)
BeginTransform ==
    /\ phase \in {"idle", "validated"}
    /\ runNo < MaxRuns
    /\ phase' = "rows"
    /\ runNo' = runNo + 1
    /\ rowIndex' = 0
    /\ nodes' = <<>>
    /\ links' = <<>>
    /\ colorMap' = <<>>
    /\ lookups' = <<>>
    /\ upserts' = <<>>
    /\ rowsLog' = <<>>
    /\ faults' = <<>>
    /\ preNodes' = <<>>
    /\ preLinks' = <<>>
    /\ vdata' = NullData
    /\ vres' = NoResult
    /\ UNCHANGED <<sanVars, fileVars, noteVars>>

\* one call of the data.forEach callback
ProcessRow(row) ==
    /\ phase = "rows"
    /\ rowIndex < MaxRows
    /\ LET st == rowCallback(row, rowIndex,
                     [nodes |-> nodes, links |-> links, colorMap |-> colorMap,
                      calls |-> lookups, upserts |-> upserts, threw |-> FALSE])
       IN  /\ nodes' = st.nodes
           /\ links' = st.links
           /\ colorMap' = st.colorMap
           /\ lookups' = st.calls
           /\ upserts' = st.upserts
           /\ faults' = Append(faults, st.threw)
    /\ rowsLog' = Append(rowsLog, row)
    /\ rowIndex' = rowIndex + 1
    /\ preNodes' = nodes
    /\ preLinks' = links
    /\ UNCHANGED <<phase, runNo, sanVars, valVars, fileVars, noteVars>>

\* the ComponentData that transformToComponentData returns
componentData == componentDataOf(nodes, links)

\* forEach is over (the data has at least one row, or NO_DATA was raised)
\* and the graph is returned
EndTransform ==
    /\ phase = "rows"
    /\ rowIndex >= 1
    /\ phase' = "done"
    /\ UNCHANGED <<runNo, rowIndex, nodes, links, colorMap, lookups, upserts,
                   rowsLog, faults, preNodes, preLinks, sanVars, valVars, fileVars, noteVars>>

\* the hook validates the graph it was handed
ValidateGraph ==
    /\ phase = "done"
    /\ phase' = "validated"
    /\ vdata' = componentData
    /\ vres' = validate(componentData)
    /\ UNCHANGED <<runNo, rowIndex, nodes, links, colorMap, lookups, upserts,
                   rowsLog, faults, preNodes, preLinks, sanVars, fileVars, noteVars>>

\* the earlier call runs from the end of its await to its return without
\* yielding to the event loop
priorRunning == prior.pc = "awaiting" /\ prior.job.pc # "read"

\* ExcelParser.processFile(file, options, onProgress) is called directly
ParserCall ==
    /\ job.pc = "idle"
    /\ hook.pc = "idle"
    /\ \E file \in Files(MaxFileRows), validateStructure \in BOOLEAN, cb \in {"none", "free"} :
          job' = NewJob(file, [maxFileSize |-> DefaultMaxFileSize,
                               validateStructure |-> validateStructure], cb)
    /\ UNCHANGED <<hook, prior, sanVars, runVars, valVars, noteVars>>

\* the hook's processFile(file) is called while it is not processing
HookCall ==
    /\ job.pc = "idle"
    /\ hook.pc = "idle"
    /\ ~hook.processing
    /\ \E file \in Files(MaxFileRows) : job' = NewJob(file, HookOptions, "hook")
    /\ hook' = hookStart(hook)
    /\ UNCHANGED <<prior, sanVars, runVars, valVars, noteVars>>

\* the hook's processFile(file) is called while it is processing
HookBusyCall ==
    /\ ~priorRunning
    /\ hook.processing
    /\ hook.busyRet = NotReturned
    /\ job.pc = "read"
    /\ hook' = [hook EXCEPT !.busyRet = HookNull]
    /\ UNCHANGED <<job, prior, sanVars, runVars, valVars, noteVars>>

\* the event loop runs other handlers only while processFile awaits the
\* file reader, and once the call has returned
handlersMayRun ==
    /\ ~priorRunning
    /\ \/ hook.pc = "awaiting" /\ job.pc = "read"
       \/ hook.pc = "done"

\* the hook's processFile(file) is called again after cancel or reset made
\* processing false, while the running call still awaits the file reader
HookRestart ==
    /\ prior = NoPrior
    /\ hook.pc = "awaiting"
    /\ job.pc = "read"
    /\ ~hook.processing
    /\ prior' = supersede(hook, job)
    /\ \E file \in RestartFiles : job' = NewJob(file, HookOptions, "hook")
    /\ hook' = hookStart(hook)
    /\ UNCHANGED <<sanVars, runVars, valVars, noteVars>>

\* the earlier call's file reader settles, or a later statement of its
\* ExcelParser.processFile call runs
PriorStatement ==
    /\ prior.pc = "awaiting"
    /\ prior.job.pc \in StatementPcs
    /\ prior.job.pc = "read" => handlersMayRun
    /\ prior' = [prior EXCEPT !.job = statement(prior.job)]
    /\ UNCHANGED <<job, hook, sanVars, runVars, valVars, noteVars>>

\* the earlier call's callback: raises when its controller is aborted, else
\* setProgress(progressUpdate)
PriorProgress ==
    /\ prior.pc = "awaiting"
    /\ prior.job.pc \in CallbackPcs
    /\ prior' = [prior EXCEPT !.job = onProgress(prior.job, prior.aborted)]
    /\ hook' = IF prior.aborted THEN hook
               ELSE [hook EXCEPT !.progress = progressAt(prior.job.pc)]
    /\ UNCHANGED <<job, sanVars, runVars, valVars, noteVars>>

\* the earlier call resumes after its await
PriorResume ==
    /\ prior.pc = "awaiting"
    /\ prior.job.pc \in SettledPcs
    /\ LET r == priorResume(hook, prior)
       IN  /\ prior' = [prior EXCEPT !.pc = r.pc, !.ret = r.ret, !.sets = r.sets]
           /\ hook' = afterPrior(hook, r)
    /\ UNCHANGED <<job, sanVars, runVars, valVars, noteVars>>

Cancel ==
    /\ handlersMayRun
    /\ hook' = cancel(hook)
    /\ hook' # hook
    /\ UNCHANGED <<job, prior, sanVars, runVars, valVars, noteVars>>

Reset ==
    /\ handlersMayRun
    /\ hook' = reset(hook)
    /\ hook' # hook
    /\ UNCHANGED <<job, prior, sanVars, runVars, valVars, noteVars>>

\* a statement of processFile other than a callback
Statement ==
    /\ ~priorRunning
    /\ job.pc \in StatementPcs
    /\ job' = statement(job)
    /\ UNCHANGED <<hook, prior, sanVars, runVars, valVars, noteVars>>

\* onProgress?.(...) with no callback or with a caller's callback, which
\* returns or raises as it likes
OnProgress ==
    /\ job.pc \in CallbackPcs
    /\ job.cb # "hook"
    /\ \E raises \in BOOLEAN : job' = onProgress(job, raises)
    /\ UNCHANGED <<hook, prior, sanVars, runVars, valVars, noteVars>>

\* onProgress(...) with the hook's callback: raises when the controller is
\* aborted, else setProgress(progressUpdate)
HookProgress ==
    /\ ~priorRunning
    /\ job.pc \in CallbackPcs
    /\ job.cb = "hook"
    /\ job' = onProgress(job, hook.aborted)
    /\ hook' = IF hook.aborted THEN hook ELSE [hook EXCEPT !.progress = progressAt(job.pc)]
    /\ UNCHANGED <<prior, sanVars, runVars, valVars, noteVars>>

\* the hook's call resumes after the await
HookResume ==
    /\ ~priorRunning
    /\ hook.pc = "awaiting"
    /\ job.pc \in SettledPcs
    /\ hook' = IF job.result.k = "resolved" THEN hookResolved(hook, job.result.data)
               ELSE hookRejected(hook, job.result.error)
    /\ UNCHANGED <<job, prior, sanVars, runVars, valVars, noteVars>>

\* any component calls addNotification
AddNotification ==
    /\ app.added < MaxAdded
    /\ \E duration \in {Duration(0), Duration(3000), NoDuration} :
          app' = addNotification(app, Note("note", duration))
    /\ UNCHANGED <<sanVars, runVars, valVars, fileVars>>

\* the hook's processFile adds 'Validating data', validates, and adds the
\* notification of the result
ValidationNotifications ==
    /\ app.added + 2 <= MaxAdded
    /\ \E data \in IngestedGraphs, ms \in {0, 1} :
          /\ app.ticks + ms <= MaxTicks
          /\ app' = validationNotifications(app, data, ms)
    /\ UNCHANGED <<sanVars, runVars, valVars, fileVars>>

\* the close button of a notification in the list
RemoveNotification ==
    /\ \E i \in DOMAIN app.notifications :
          app' = removeNotification(app, app.notifications[i].id)
    /\ UNCHANGED <<sanVars, runVars, valVars, fileVars>>

ClearNotifications ==
    /\ app.notifications # <<>>
    /\ app' = clearNotifications(app)
    /\ UNCHANGED <<sanVars, runVars, valVars, fileVars>>

\* a pending timer that is due runs
TimerFires ==
    /\ \E i \in DOMAIN app.timers :
          /\ app.timers[i].due <= app.now
          /\ app' = timerFires(app, i)
    /\ UNCHANGED <<sanVars, runVars, valVars, fileVars>>

\* the clock advances by a millisecond, or to the time a pending timer is due
Tick ==
    /\ app.ticks < MaxTicks
    /\ \E t \in {app.now + 1} \cup {app.timers[i].due : i \in DOMAIN app.timers} :
          /\ t > app.now
          /\ app' = elapse(app, t - app.now)
    /\ UNCHANGED <<sanVars, runVars, valVars, fileVars>>

ProcessStringRow == \E row \in StringRows : ProcessRow(row)
ProcessAnyRow == \E row \in StringRows \cup OddRows : ProcessRow(row)

ProcessUnicodeRow == \E row \in UnicodeRows : ProcessRow(row)

\* ingestion of decoded sheets, then validation
Next == BeginTransform \/ ProcessStringRow \/ EndTransform \/ ValidateGraph
Spec == Init /\ [][Next]_vars

\* ingestion of rows that may hold non-string cells
NextOdd == BeginTransform \/ ProcessAnyRow \/ EndTransform \/ ValidateGraph
SpecOdd == Init /\ [][NextOdd]_vars

\* ingestion of rows whose names may hold letters outside a-zA-Z
NextUnicode ==
    \/ BeginTransform
    \/ ProcessStringRow
    \/ ProcessUnicodeRow
    \/ EndTransform
    \/ ValidateGraph

SpecUnicode == Init /\ [][NextUnicode]_vars

\* validate on arbitrary values
NextValidate == ValidateCall
SpecValidate == InitValidate /\ [][NextValidate]_vars

\* validate on graphs of growing size
NextScore == ValidateCall
SpecScore == InitScore /\ [][NextScore]_vars

\* sanitizeId on arbitrary strings
NextSanitize == SanitizeCall
SpecSanitize == InitSanitize /\ [][NextSanitize]_vars

NextCycles == ValidateCall
SpecCycles == InitCycles /\ [][NextCycles]_vars

NextOrphans == ValidateCall
SpecOrphans == InitOrphans /\ [][NextOrphans]_vars

NextKeys == ValidateCall
SpecKeys == InitKeys /\ [][NextKeys]_vars

NextHubs == ValidateCall
SpecHubs == InitHubs /\ [][NextHubs]_vars

\* one call of ExcelParser.processFile, made directly or by the hook
NextFile ==
    \/ ParserCall
    \/ HookCall
    \/ HookBusyCall
    \/ Cancel
    \/ Reset
    \/ Statement
    \/ OnProgress
    \/ HookProgress
    \/ HookResume

SpecFile == Init /\ [][NextFile]_vars

\* calls of the hook, one of which may begin while an earlier one awaits
NextCancel ==
    \/ NextFile
    \/ HookRestart
    \/ PriorStatement
    \/ PriorProgress
    \/ PriorResume

SpecCancel == Init /\ [][NextCancel]_vars

\* notifications added, removed and timed out
NextNotify ==
    \/ AddNotification
    \/ ValidationNotifications
    \/ RemoveNotification
    \/ ClearNotifications
    \/ TimerFires
    \/ Tick

SpecNotify == Init /\ [][NextNotify]_vars

-----------------------------------------------------------------------------
(* Properties of DataValidator.validate (SpecValidate) *)

returned == vres # NoResult

\* an internal fault occurred in the try block of the call
faulted == validateStages(vdata).threw

IsCount(n) == n \in Nat

WellFormedMetrics(m) ==
    /\ DOMAIN m = {"totalNodes", "totalLinks", "orphanedNodes", "circularDependencies",
                   "nodesByType", "linksByType", "complexityScore"}
    /\ IsCount(m.totalNodes) /\ IsCount(m.totalLinks) /\ IsCount(m.orphanedNodes)
    /\ IsCount(m.circularDependencies) /\ IsCount(m.complexityScore)
    /\ \A t \in DOMAIN m.nodesByType : m.nodesByType[t] \in Nat \ {0}
    /\ \A t \in DOMAIN m.linksByType : m.linksByType[t] \in Nat \ {0}

\* C1: validate never raises, whatever value it is handed; every call
\* returns a result with isValid, errors, warnings and metrics.
C1_ValidateNeverRaises ==
    returned =>
        /\ ~vres.raised
        /\ {"isValid", "errors", "warnings", "metrics"} \subseteq DOMAIN vres
        /\ vres.isValid \in BOOLEAN
        /\ \A i \in DOMAIN vres.errors :
              /\ {"code", "severity"} \subseteq DOMAIN vres.errors[i]
              /\ vres.errors[i].severity = "error"
        /\ \A i \in DOMAIN vres.warnings : "code" \in DOMAIN vres.warnings[i]
        /\ WellFormedMetrics(vres.metrics)

\* validate has returned for a graph whose node list and link list both
\* hold a null entry
C1_Witness ==
    /\ returned
    /\ vdata.k = "obj"
    /\ hasNullEntry(vdata.nodes)
    /\ hasNullEntry(vdata.links)

countCode(list, code) == Cardinality({i \in DOMAIN list : list[i].code = code})

\* C2 as claimed: after an internal fault the errors list is exactly one
\* record, VALIDATION_FAILED, with zero metrics and isValid false.
C2_OnlyValidationFailed ==
    (returned /\ faulted) =>
        /\ vres.errors = <<Err("VALIDATION_FAILED")>>
        /\ vres.metrics = getEmptyMetrics
        /\ ~vres.isValid

\* C2 amended: after an internal fault the errors list ends with one
\* VALIDATION_FAILED record of severity error, its only such record, which
\* follows the errors found before the fault; metrics are the all-zero
\* defaults and isValid is false.
C2_ValidationFailedAppended ==
    (returned /\ faulted) =>
        /\ vres.errors # <<>>
        /\ vres.errors[Len(vres.errors)] = Err("VALIDATION_FAILED")
        /\ countCode(vres.errors, "VALIDATION_FAILED") = 1
        /\ vres.metrics = getEmptyMetrics
        /\ ~vres.isValid

\* validate(null) has returned
C2_Witness ==
    /\ returned
    /\ faulted
    /\ vdata.k = "null"
    /\ Len(vres.errors) = 2

\* C3: isValid is true exactly when the returned errors list is empty;
\* warnings do not enter into it.
C3_ValidIffNoErrors ==
    returned => (vres.isValid <=> vres.errors = <<>>)

\* validate has returned a valid result that carries warnings
C3_Witness ==
    /\ returned
    /\ vres.isValid
    /\ Len(vres.warnings) >= 2

-----------------------------------------------------------------------------
(* Properties of ExcelParser.sanitizeId (SpecSanitize) *)

IdAlphabet == Range(LowerCase) \cup Digits \cup {"-", "_"}

\* C9: sanitizeId is idempotent and its result holds only lowercase
\* letters, digits, hyphen and underscore.
C9_SanitizeIdempotent ==
    sanOut.done =>
        /\ sanitizeId(sanOut.value) = sanOut.value
        /\ \A i \in DOMAIN sanOut.value : sanOut.value[i] \in IdAlphabet

\* sanitizeId has returned for a string with an uppercase letter, inner
\* whitespace and a special character
C9_Witness ==
    /\ sanOut.done
    /\ sanIn = <<"A", " ", "!">>
    /\ sanOut.value = <<"a", "_">>

-----------------------------------------------------------------------------
(* Properties of ExcelParser.transformToComponentData (Spec, SpecOdd) *)

nodeList == mapValues(nodes)
produced == phase \in {"done", "validated"}
lastRowRaised == faults # <<>> /\ faults[Len(faults)]

\* the three cells are non-blank and give three distinct non-empty ids
threeDistinctIds(row) ==
    /\ nonBlank(row.Solutions) /\ nonBlank(row.SolutionInput)
    /\ nonBlank(row.SolutionOutput)
    /\ LET s == sanitizeId(row.Solutions.s)
           i == sanitizeId(row.SolutionInput.s)
           o == sanitizeId(row.SolutionOutput.s)
       IN  s # <<>> /\ i # <<>> /\ o # <<>> /\ s # i /\ s # o /\ i # o

\* C4: one row with three non-blank cells that give three distinct
\* non-empty ids yields 3 nodes (solution: service, input and output:
\* interface) and 2 links (input->solution, then solution->output), and
\* validate finds the graph valid with no errors, 3 nodes, 2 links and no
\* orphaned node.
C4_SingleRowGraph ==
    (produced /\ Len(rowsLog) = 1 /\ threeDistinctIds(rowsLog[1])) =>
        LET s == sanitizeId(rowsLog[1].Solutions.s)
            i == sanitizeId(rowsLog[1].SolutionInput.s)
            o == sanitizeId(rowsLog[1].SolutionOutput.s)
        IN  /\ Len(nodeList) = 3
            /\ {<<nodeList[n].id, nodeList[n].type>> : n \in DOMAIN nodeList}
                 = {<<s, "service">>, <<i, "interface">>, <<o, "interface">>}
            /\ Len(links) = 2
            /\ links[1].source = i /\ links[1].target = s
            /\ links[2].source = s /\ links[2].target = o
            /\ phase = "validated" =>
                  /\ vres.isValid
                  /\ Len(vres.errors) = 0
                  /\ vres.metrics.totalNodes = 3
                  /\ vres.metrics.totalLinks = 2
                  /\ vres.metrics.orphanedNodes = 0

\* the graph of one such row has been validated
C4_Witness ==
    /\ phase = "validated"
    /\ Len(rowsLog) = 1
    /\ threeDistinctIds(rowsLog[1])
    /\ Len(nodeList) = 3

lastUpsertOf(id) ==
    upserts[CHOOSE k \in DOMAIN upserts :
               upserts[k].id = id /\ \A m \in (k + 1)..Len(upserts) : upserts[m].id # id]

\* C5: after every row the node list has exactly one entry per upserted
\* id, holding what the last upsert of that id wrote; two rows with the
\* same Solutions value leave one node for it, written by the second row.
C5_OneNodePerId ==
    /\ \A m, n \in DOMAIN nodeList : m # n => nodeList[m].id # nodeList[n].id
    /\ {nodeList[n].id : n \in DOMAIN nodeList} = {upserts[k].id : k \in DOMAIN upserts}
    /\ \A n \in DOMAIN nodeList : nodeList[n] = lastUpsertOf(nodeList[n].id)
    /\ \A n \in DOMAIN nodes : nodes[n].key = nodes[n].value.id
    /\ (/\ Len(rowsLog) = 2
        /\ nonBlank(rowsLog[1].Solutions)
        /\ rowsLog[1].Solutions = rowsLog[2].Solutions) =>
            LET s == sanitizeId(rowsLog[2].Solutions.s)
            IN  /\ Cardinality({n \in DOMAIN nodeList : nodeList[n].id = s}) = 1
                /\ \A n \in DOMAIN nodeList :
                      nodeList[n].id = s => nodeList[n].metadata.rowIndex = 2

\* two rows with the same Solutions value have been ingested
C5_Witness ==
    /\ Len(rowsLog) = 2
    /\ nonBlank(rowsLog[1].Solutions)
    /\ rowsLog[1].Solutions = rowsLog[2].Solutions
    /\ rowsLog[1] # rowsLog[2]
    /\ Len(upserts) > Len(nodeList)

endsOf(list) == [n \in DOMAIN list |-> <<list[n].source, list[n].target>>]

\* the links the claim gives one row
rowLinks(row) ==
    (IF nonBlank(row.Solutions) /\ nonBlank(row.SolutionInput)
     THEN <<<<sanitizeId(row.SolutionInput.s), sanitizeId(row.Solutions.s)>>>>
     ELSE <<>>)
    \o
    (IF nonBlank(row.Solutions) /\ nonBlank(row.SolutionOutput)
     THEN <<<<sanitizeId(row.Solutions.s), sanitizeId(row.SolutionOutput.s)>>>>
     ELSE <<>>)

RECURSIVE rowsLinks(_)
rowsLinks(rows) ==
    IF rows = <<>> THEN <<>>
    ELSE rowsLinks(SubSeq(rows, 1, Len(rows) - 1)) \o rowLinks(rows[Len(rows)])

isPrefix(p, q) == Len(p) <= Len(q) /\ SubSeq(q, 1, Len(p)) = p

linksExact == endsOf(links) = rowsLinks(rowsLog)
linksAppendOnly == (phase = "rows" /\ phase' = "rows") => isPrefix(links, links')

\* C6: the links are, row by row in row order, input->solution where
\* Solutions and Solution Input are non-blank, then solution->output where
\* Solutions and Solution Output are non-blank; a later row leaves the
\* earlier links as they are; duplicates and self-loops are kept.
C6_LinksInRowOrder == []linksExact /\ [][linksAppendOnly]_vars

\* a run has produced a self-loop twice
C6_Witness ==
    /\ Len(links) = 4
    /\ links[1] = links[3]
    /\ links[1].source = links[1].target

\* the rows, ingested with the rows that raised left out
RECURSIVE ingestWithout(_, _, _)
ingestWithout(rows, raisedAt, n) ==
    IF n = 0
    THEN [nodes |-> <<>>, links |-> <<>>, colorMap |-> <<>>, calls |-> <<>>,
          upserts |-> <<>>, threw |-> FALSE]
    ELSE IF raisedAt[n] THEN ingestWithout(rows, raisedAt, n - 1)
         ELSE rowCallback(rows[n], n - 1, ingestWithout(rows, raisedAt, n - 1))

\* C7: a row that raises is skipped as a whole: nodes and links are what
\* they were before it, and the rows after it are ingested as if it were
\* not there.
C7_FaultyRowSkipped ==
    /\ lastRowRaised => (nodes = preNodes /\ links = preLinks)
    /\ LET clean == ingestWithout(rowsLog, faults, Len(rowsLog))
       IN  nodes = clean.nodes /\ links = clean.links

\* C8: no node has an empty id and no link an empty source or target.
C8_NoEmptyIds ==
    /\ \A n \in DOMAIN nodeList : nodeList[n].id # <<>>
    /\ \A n \in DOMAIN links : links[n].source # <<>> /\ links[n].target # <<>>

\* how many distinct categories were looked up before the first lookup of
\* the category of lookup n
rankOf(n) ==
    LET first == CHOOSE m \in 1..n :
                     /\ lookups[m].category = lookups[n].category
                     /\ \A j \in 1..(m - 1) : lookups[j].category # lookups[n].category
    IN  Cardinality({lookups[j].category : j \in 1..(first - 1)})

\* C10: in a run the k-th distinct category looked up gets hue
\* k * 137.508 mod 360, saturation 70, lightness 50; a repeated lookup gets
\* the same colour; a run starts with an empty cache.
C10_GoldenAngleColors ==
    /\ \A n \in DOMAIN lookups :
          lookups[n].color = [h |-> (rankOf(n) * 137508) % 360000, s |-> 70, l |-> 50]
    /\ \A m, n \in DOMAIN lookups :
          lookups[m].category = lookups[n].category => lookups[m].color = lookups[n].color
    /\ (phase = "rows" /\ rowIndex = 0) => colorMap = <<>>
    /\ Len(colorMap) = Cardinality({lookups[n].category : n \in DOMAIN lookups})

\* a second run has looked up four categories, three of them distinct
C10_Witness ==
    /\ runNo = 2
    /\ Len(lookups) = 4
    /\ Len(colorMap) = 3
    /\ lookups[4].color.h = 275016

-----------------------------------------------------------------------------
(* Link colours (Spec) *)

\* C11 as claimed: within one run, two links with equal metadata.category
\* have equal metadata.color.
C11_CategoryDecidesColor ==
    \A i, j \in DOMAIN links :
        links[i].metadata.category = links[j].metadata.category
            => links[i].metadata.color = links[j].metadata.color

-----------------------------------------------------------------------------
(* Properties of the link checks (SpecValidate) *)

\* the entries of data.nodes and data.links that validate was handed
nodeItemsIn == nodesOf(vdata).items
linkItemsIn == linksOf(vdata).items
idsIn == {opt(nodeItemsIn[i], "id") : i \in DOMAIN nodeItemsIn}

\* the link checks were reached and completed without an internal fault
linksChecked ==
    /\ linksOf(vdata).k = "arr"
    /\ ~validateLinks(vdata, validateNodes(vdata,
            validateBasicStructure(vdata, NewAcc))).threw

\* the records of a list that carry a code and the index of an entry
hasAt(list, code, i) ==
    \E n \in DOMAIN list :
        /\ list[n].code = code
        /\ "index" \in DOMAIN list[n]
        /\ list[n].index = i - 1
countAt(list, code, i) ==
    Cardinality({n \in DOMAIN list :
        /\ list[n].code = code
        /\ "index" \in DOMAIN list[n]
        /\ list[n].index = i - 1})

\* link i is an object whose target is not the id of a node
danglingTarget(i) ==
    /\ linkItemsIn[i].k = "obj"
    /\ linkItemsIn[i].target \notin idsIn

\* C12 as claimed: a link whose target is not among the node ids always
\* produces an INVALID_LINK_TARGET error and forces isValid = false.
C12_DanglingTargetAlwaysInvalid ==
    returned =>
        \A i \in DOMAIN linkItemsIn :
            danglingTarget(i) =>
                /\ hasAt(vres.errors, "INVALID_LINK_TARGET", i)
                /\ ~vres.isValid

\* C12 amended: a link whose target is not among the node ids forces
\* isValid = false; when the link checks ran without an internal fault, a
\* truthy such target is reported as INVALID_LINK_TARGET for that link, and
\* a missing or empty one as MISSING_LINK_TARGET and not as
\* INVALID_LINK_TARGET.
C12_DanglingTargetReported ==
    returned =>
        \A i \in DOMAIN linkItemsIn :
            danglingTarget(i) =>
                /\ ~vres.isValid
                /\ (linksChecked /\ truthy(linkItemsIn[i].target))
                       => hasAt(vres.errors, "INVALID_LINK_TARGET", i)
                /\ (linksChecked /\ ~truthy(linkItemsIn[i].target))
                       => /\ hasAt(vres.errors, "MISSING_LINK_TARGET", i)
                          /\ ~hasAt(vres.errors, "INVALID_LINK_TARGET", i)

\* validate has returned, without a fault, on nodes [a] and a link to b
C12_Witness ==
    /\ returned
    /\ ~faulted
    /\ Len(nodeItemsIn) = 1
    /\ \E i \in DOMAIN linkItemsIn :
          /\ danglingTarget(i)
          /\ truthy(linkItemsIn[i].target)
          /\ hasAt(vres.errors, "INVALID_LINK_TARGET", i)

\* the codes of the errors validateLink pushes
LinkErrorCodes == {"MISSING_LINK_SOURCE", "MISSING_LINK_TARGET",
                   "INVALID_LINK_SOURCE", "INVALID_LINK_TARGET"}

\* link i is an object whose source equals its target
selfLoop(i) ==
    /\ linkItemsIn[i].k = "obj"
    /\ linkItemsIn[i].source = linkItemsIn[i].target

\* the value handed to validate, without entry i of its links
withoutLink(i) ==
    [vdata EXCEPT !.links =
        Arr(SubSeq(linkItemsIn, 1, i - 1) \o SubSeq(linkItemsIn, i + 1, Len(linkItemsIn)))]

\* what the claim says of link i
selfLoopOnlyWarns(i) ==
    /\ \A code \in LinkErrorCodes : ~hasAt(vres.errors, code, i)
    /\ countAt(vres.warnings, "SELF_REFERENCE", i) = 1
    /\ vres.isValid = validate(withoutLink(i)).isValid

\* C13 as claimed: a self-loop link never produces an error, always
\* produces exactly one SELF_REFERENCE warning for that link, and does not
\* affect isValid.
C13_SelfLoopOnlyWarns ==
    returned => \A i \in DOMAIN linkItemsIn : selfLoop(i) => selfLoopOnlyWarns(i)

\* C13 amended: when the link checks ran without an internal fault, a
\* self-loop on the id of a node (a non-empty string) produces no link
\* error, exactly one SELF_REFERENCE warning for that link, and leaves
\* isValid as it is without the link.
C13_SelfLoopOnNodeOnlyWarns ==
    returned =>
        \A i \in DOMAIN linkItemsIn :
            (/\ selfLoop(i)
             /\ linksChecked
             /\ linkItemsIn[i].source.k = "str"
             /\ truthy(linkItemsIn[i].source)
             /\ linkItemsIn[i].source \in idsIn) => selfLoopOnlyWarns(i)

\* validate has returned a valid result for a graph with the self-loop a -> a
C13_Witness ==
    /\ returned
    /\ ~faulted
    /\ vres.isValid
    /\ \E i \in DOMAIN linkItemsIn :
          /\ selfLoop(i)
          /\ linkItemsIn[i].source \in idsIn
          /\ hasAt(vres.warnings, "SELF_REFERENCE", i)

\* link i is an object with a truthy source and a truthy target
hasBothEnds(i) ==
    /\ linkItemsIn[i].k = "obj"
    /\ truthy(linkItemsIn[i].source)
    /\ truthy(linkItemsIn[i].target)

\* an earlier link runs from the target of link i to its source
reverseSeenBefore(i) ==
    \E j \in 1..(i - 1) :
        /\ hasBothEnds(j)
        /\ linkItemsIn[j].source = linkItemsIn[i].target
        /\ linkItemsIn[j].target = linkItemsIn[i].source

\* C14 as claimed: link i gets one BIDIRECTIONAL_LINK warning exactly when
\* the reverse edge was seen at an earlier index and link i is not flagged
\* DUPLICATE_LINK; a link with no earlier reverse edge gets none.
C14_BidirectionalIffReverseSeen ==
    (returned /\ linksChecked) =>
        \A i \in DOMAIN linkItemsIn :
            hasBothEnds(i) =>
                countAt(vres.warnings, "BIDIRECTIONAL_LINK", i) =
                    (IF reverseSeenBefore(i)
                        /\ ~hasAt(vres.warnings, "DUPLICATE_LINK", i)
                     THEN 1 ELSE 0)

-----------------------------------------------------------------------------
(* Properties of the complexity score (SpecScore) *)

nodeCountIn == Len(nodeItemsIn)
linkCountIn == Len(linkItemsIn)

\* s is x rounded to the nearest integer, halves up, where x = num / den
\* and den > 0
isRound(s, num, den) == 2 * den * s - den <= 2 * num /\ 2 * num < 2 * den * s + den

\* C15 as claimed: complexityScore is
\* round(nodeCount + linkCount / max(nodeCount, 1) * 10 + circularDependencies * 5),
\* also for a graph with zero nodes and a non-empty link list.
C15_ScoreDividesByMax ==
    (returned /\ ~faulted) =>
        LET den == IF nodeCountIn > 1 THEN nodeCountIn ELSE 1
        IN  isRound(vres.metrics.complexityScore,
                    nodeCountIn * den + 10 * linkCountIn
                        + 5 * vres.metrics.circularDependencies * den,
                    den)

\* C15 amended: complexityScore is
\* round(nodeCount + linkCount / nodeCount * 10 + circularDependencies * 5)
\* when there is a node, and circularDependencies * 5 when there is none,
\* whatever the number of links.
C15_ScoreIsRoundedSum ==
    (returned /\ ~faulted) =>
        IF nodeCountIn > 0
        THEN isRound(vres.metrics.complexityScore,
                     nodeCountIn * nodeCountIn + 10 * linkCountIn
                         + 5 * vres.metrics.circularDependencies * nodeCountIn,
                     nodeCountIn)
        ELSE vres.metrics.complexityScore = 5 * vres.metrics.circularDependencies

\* validate has returned on 4 nodes, 3 links and 1 cycle: 4 + 7.5 + 5
\* rounds to 17
C15_Witness ==
    /\ returned
    /\ ~faulted
    /\ nodeCountIn = 4
    /\ linkCountIn = 3
    /\ vres.metrics.circularDependencies = 1
    /\ vres.metrics.complexityScore = 17

\* the score validate gives a graph
scoreOf(data) == validate(data).metrics.complexityScore
cyclesOf(data) == validate(data).metrics.circularDependencies

\* C16 as claimed: among graphs with the same cycle count, one with no more
\* nodes and no more links has no greater complexityScore.
C16_ScoreMonotoneInNodesAndLinks ==
    (returned /\ ~faulted) =>
        \A d \in ScoreInputs(MaxScoreNodes, MaxScoreLinks) :
            (/\ Len(d.nodes.items) <= nodeCountIn
             /\ Len(d.links.items) <= linkCountIn
             /\ cyclesOf(d) = vres.metrics.circularDependencies)
                => scoreOf(d) <= vres.metrics.complexityScore

\* C16 amended: among graphs with the same node count and the same cycle
\* count, one with no more links has no greater complexityScore.
C16_ScoreMonotoneInLinks ==
    (returned /\ ~faulted) =>
        \A d \in ScoreInputs(MaxScoreNodes, MaxScoreLinks) :
            (/\ Len(d.nodes.items) = nodeCountIn
             /\ Len(d.links.items) <= linkCountIn
             /\ cyclesOf(d) = vres.metrics.circularDependencies)
                => scoreOf(d) <= vres.metrics.complexityScore

\* validate has returned on 2 nodes and 4 links, whose score 22 exceeds
\* that of 2 nodes and 3 links
C16_Witness ==
    /\ returned
    /\ ~faulted
    /\ nodeCountIn = 2
    /\ linkCountIn = 4
    /\ vres.metrics.circularDependencies = 0
    /\ vres.metrics.complexityScore = 22
    /\ \E d \in ScoreInputs(MaxScoreNodes, MaxScoreLinks) :
          /\ Len(d.nodes.items) = 2
          /\ Len(d.links.items) = 3
          /\ cyclesOf(d) = 0
          /\ scoreOf(d) = 17

-----------------------------------------------------------------------------
(* Properties of ExcelParser.processFile and useExcelProcessor (SpecFile) *)

settled == job.pc \in SettledPcs

\* C17: when processFile fails on a fault that has a code of its own
\* (FILE_TOO_LARGE, INVALID_FORMAT, NO_SHEETS, WORKSHEET_ERROR, NO_DATA,
\* MISSING_COLUMNS, INVALID_DATA_TYPE), the error it rejects with carries
\* that code; PROCESSING_FAILED is carried only for faults without a code;
\* and a failed call yields no graph
C17_RejectsWithFaultCode ==
    job.pc = "rejected" =>
        /\ job.result.k = "rejected"
        /\ job.thrown.code # "none" => job.result.error.code = job.thrown.code
        /\ job.result.error.code = "PROCESSING_FAILED" => job.thrown.code = "none"

\* C18 as stated: whatever the callback does, the outcome of processFile is
\* the outcome it has with no callback supplied
C18_CallbackNeverChangesOutcome ==
    settled => job.result = outcomeWithout(job.file, job.opts)

\* C18: a callback that returns normally every time leaves the outcome of
\* processFile what it is with no callback supplied; a callback that raises
\* makes processFile reject with PROCESSING_FAILED and the callback's message
C18_ReturningCallbackKeepsOutcome ==
    settled =>
        IF job.cbRaised
        THEN job.result = Rejected(createProcessingError(callbackError(job.cb),
                                                         "PROCESSING_FAILED"))
        ELSE job.result = outcomeWithout(job.file, job.opts)

\* a callback raised in a call that resolves when no callback is supplied
C18_Witness ==
    /\ settled
    /\ job.cb = "free"
    /\ job.cbRaised
    /\ Len(job.stages) >= 1
    /\ outcomeWithout(job.file, job.opts).k = "resolved"

\* C19: when ExcelParser.processFile resolved and the run was not cancelled,
\* the hook's processFile returns a result holding the produced graph, valid
\* or not; it returns null only when the run was cancelled or
\* ExcelParser.processFile rejected (a call made while processing returns
\* null at once)
C19_HookReturnsGraphUnlessFailedOrCancelled ==
    hook.pc = "done" =>
        /\ job.result.k = "resolved" /\ ~hook.aborted =>
              hook.ret.k = "result" /\ hook.ret.data = job.result.data
        /\ hook.ret = HookNull => hook.aborted \/ job.result.k = "rejected"
        /\ hook.ret.k = "result" => job.result.k = "resolved"

\* the hook returned a graph that validate reports as invalid
C19_Witness ==
    /\ hook.pc = "done"
    /\ hook.ret.k = "result"
    /\ hook.validationResult # HookNull
    /\ hook.validationResult.isValid = FALSE
    /\ hook.ret.data.nodes.items # <<>>

-----------------------------------------------------------------------------
(* Properties of the hub warning (SpecHubs) *)

\* the values that appear as source or target of a link
endpointValues == {linkItemsIn[i].source : i \in DOMAIN linkItemsIn}
                  \cup {linkItemsIn[i].target : i \in DOMAIN linkItemsIn}

\* appearances of v as a source plus appearances of v as a target
appearances(v) ==
    Cardinality({i \in DOMAIN linkItemsIn : linkItemsIn[i].source = v})
    + Cardinality({i \in DOMAIN linkItemsIn : linkItemsIn[i].target = v})

hubs == {v \in endpointValues : appearances(v) > 10}

hubWarnings == SelectSeq(vres.warnings, LAMBDA w : w.code = "HIGHLY_CONNECTED_NODES")

\* the list holds min(3, number of hubs) distinct hubs, in descending order
\* of appearances, and no hub left out appears more often than a listed one
listsTopHubs(ids) ==
    /\ Len(ids) = (IF Cardinality(hubs) < 3 THEN Cardinality(hubs) ELSE 3)
    /\ \A i \in DOMAIN ids : ids[i] \in hubs
    /\ \A i, j \in DOMAIN ids : i < j =>
          ids[i] # ids[j] /\ appearances(ids[i]) >= appearances(ids[j])
    /\ \A v \in hubs : \A i \in DOMAIN ids :
          v \notin {ids[j] : j \in DOMAIN ids} => appearances(v) <= appearances(ids[i])

-----------------------------------------------------------------------------
(* Properties of DataValidator.detectCircularDependencies (SpecCycles) *)

\* the search of the call, replayed on its argument
search == searchOf(nodeItemsIn, linkItemsIn)

\* the calls of dfs that found their node on the stack, in order
onStackCalls == SelectSeq(search.trace, LAMBDA e : e.branch = "onStack")

noRepeat(seq) == \A i, j \in DOMAIN seq : i # j => seq[i] # seq[j]

\* the sub-path from the first occurrence of the neighbour through the
\* current node, the last element of the path the call was given
subPath(e) == SubSeq(e.path, indexOf(e.path, e.node), Len(e.path))

\* the call after an onStack call, if any, is not made from inside it
noDescentAfterOnStack ==
    \A t \in DOMAIN search.trace :
        search.trace[t].branch = "onStack" /\ t < Len(search.trace) =>
            Len(search.trace[t + 1].path) <= Len(search.trace[t].path)

\* C21 as stated: on a neighbour that is on the stack the recorded cycle is
\* the sub-path from the neighbour's first occurrence through the current
\* node, each id once and the current node last, and the search does not
\* descend further
C21_CycleIsSubPath ==
    returned =>
        /\ Len(search.cycles) = Len(onStackCalls)
        /\ \A k \in DOMAIN onStackCalls :
              /\ search.cycles[k] = subPath(onStackCalls[k])
              /\ noRepeat(search.cycles[k])
        /\ noDescentAfterOnStack

\* C21: on a neighbour that is on the stack the recorded cycle is the
\* sub-path from the neighbour's first occurrence through the current node,
\* each id once, followed by the neighbour again (the cycle is closed: its
\* first and last element are the neighbour), and the search does not descend
\* further
C21_CycleIsClosedSubPath ==
    returned =>
        /\ Len(search.cycles) = Len(onStackCalls)
        /\ \A k \in DOMAIN onStackCalls :
              /\ search.cycles[k] = Append(subPath(onStackCalls[k]), onStackCalls[k].node)
              /\ noRepeat(subPath(onStackCalls[k]))
              /\ subPath(onStackCalls[k])[1] = onStackCalls[k].node
        /\ noDescentAfterOnStack

\* a cycle of two ids was recorded and the search went on afterwards
C21_Witness ==
    /\ returned
    /\ \E t \in DOMAIN search.trace :
          /\ search.trace[t].branch = "onStack"
          /\ Len(search.trace[t].path) >= 2
          /\ t < Len(search.trace)

nodeIdsIn == {nodeItemsIn[i].id : i \in DOMAIN nodeItemsIn}
targetsFrom(ids) ==
    {linkItemsIn[i].target : i \in {j \in DOMAIN linkItemsIn : linkItemsIn[j].source \in ids}}

\* the ids reached from ids along n links at most
RECURSIVE reachWithin(_, _)
reachWithin(ids, n) ==
    IF n = 0 THEN ids ELSE reachWithin(ids \cup targetsFrom(ids), n - 1)

reachableIds == reachWithin(nodeIdsIn, Len(linkItemsIn))
onCycle(v) == v \in reachWithin(targetsFrom({v}), Len(linkItemsIn))
cycleReachable == \E v \in reachableIds : onCycle(v)

\* C22 as stated: links whose source is no node id are not in the adjacency
\* map, so no reported cycle passes through an id that is no node id
C22_CyclesStayOnNodeIds ==
    returned =>
        \A k \in DOMAIN search.cycles : \A i \in DOMAIN search.cycles[k] :
            search.cycles[k][i] \in nodeIdsIn

\* the calls made from the expansion e: one per link leaving its id
callsFrom(e) ==
    Cardinality({t \in DOMAIN search.trace :
                    search.trace[t].path = Append(e.path, e.node)})

\* C22: the adjacency map holds every link, whatever its source: an id that
\* is expanded, node id or not, is descended along each link leaving it, so
\* a reported cycle may pass through ids that are no node ids; only ids
\* reachable from a node id are expanded, so a closed path that cannot be
\* reached from a node id is not counted
C22_AdjacencyHoldsEveryLink ==
    returned =>
        /\ \A t \in DOMAIN search.trace :
              search.trace[t].branch = "expand" =>
                  /\ search.trace[t].node \in reachableIds
                  /\ callsFrom(search.trace[t])
                       = Cardinality({i \in DOMAIN linkItemsIn :
                                         linkItemsIn[i].source = search.trace[t].node})
        /\ \A k \in DOMAIN search.cycles : \A i \in DOMAIN search.cycles[k] :
              search.cycles[k][i] \in reachableIds

\* a reported cycle passes through an id that is no node id, and another
\* closed path is out of reach
C22_Witness ==
    /\ returned
    /\ \E k \in DOMAIN search.cycles : \E i \in DOMAIN search.cycles[k] :
          search.cycles[k][i] \notin nodeIdsIn
    /\ vres.metrics.circularDependencies = Len(search.cycles)

isLink(source, target) ==
    \E i \in DOMAIN linkItemsIn :
        linkItemsIn[i].source = source /\ linkItemsIn[i].target = target

cycleWarnings == SelectSeq(vres.warnings, LAMBDA w : w.code = "CIRCULAR_DEPENDENCIES")

\* C23: every reported cycle is a closed directed path of the link graph, and
\* a cycle is reported, metrics.circularDependencies is positive and a
\* CIRCULAR_DEPENDENCIES warning is present exactly when a directed cycle
\* (self-loops included) can be reached along links from some node id
C23_CyclesSoundAndDetected ==
    returned =>
        /\ \A k \in DOMAIN search.cycles :
              /\ Len(search.cycles[k]) >= 2
              /\ search.cycles[k][1] = search.cycles[k][Len(search.cycles[k])]
              /\ \A i \in 1..(Len(search.cycles[k]) - 1) :
                    isLink(search.cycles[k][i], search.cycles[k][i + 1])
        /\ Len(search.cycles) > 0 <=> cycleReachable
        /\ vres.metrics.circularDependencies > 0 <=> cycleReachable
        /\ Len(cycleWarnings) > 0 <=> cycleReachable
        /\ \A w \in DOMAIN cycleWarnings :
              cycleWarnings[w].cycles = firstN(search.cycles, 3)

\* the only cycle is reachable from the second node alone and is reported
C23_Witness ==
    /\ returned
    /\ Len(nodeItemsIn) >= 2
    /\ ~\E v \in reachWithin({nodeItemsIn[1].id}, Len(linkItemsIn)) : onCycle(v)
    /\ Len(cycleWarnings) = 1
    /\ Len(search.cycles[1]) = 3

expandCalls == SelectSeq(search.trace, LAMBDA e : e.branch = "expand")

\* C24: the search terminates, each id is expanded at most once, and the
\* number of calls of dfs is at most the number of node entries plus the
\* number of links
C24_SearchIsLinear ==
    returned =>
        /\ \A i, j \in DOMAIN expandCalls : i # j => expandCalls[i].node # expandCalls[j].node
        /\ Len(search.trace) <= Len(nodeItemsIn) + Len(linkItemsIn)
        /\ search.recursionStack = {}

\* a graph with a cycle and a duplicate link on which the bound is attained
C24_Witness ==
    /\ returned
    /\ Len(search.cycles) > 0
    /\ \E i, j \in DOMAIN linkItemsIn : i < j /\ linkItemsIn[i] = linkItemsIn[j]
    /\ \E e \in DOMAIN search.trace : search.trace[e].branch = "visited"
    /\ Len(search.trace) = Len(nodeItemsIn) + Len(linkItemsIn)

-----------------------------------------------------------------------------
(* Properties of the orphan finding (SpecOrphans) *)

orphanWarnings == SelectSeq(vres.warnings, LAMBDA w : w.code = "ORPHANED_NODES")

\* the ids of the nodes that are neither source nor target of a link, in
\* node order
orphanedIds ==
    LET isolated(n) == ~\E i \in DOMAIN linkItemsIn :
                           linkItemsIn[i].source = n.id \/ linkItemsIn[i].target = n.id
    IN  idsOf(SelectSeq(nodeItemsIn, isolated))

\* C25: the ORPHANED_NODES warning and metrics.orphanedNodes of one call
\* agree: the warning is present exactly when the metric is positive, states
\* the metric as its count and lists the first min(5, count) orphaned ids in
\* node order, also when ids or link ends are empty or missing
C25_OrphanWarningAgreesWithMetric ==
    returned /\ ~faulted =>
        /\ Len(orphanWarnings) > 0 <=> vres.metrics.orphanedNodes > 0
        /\ \A w \in DOMAIN orphanWarnings :
              /\ orphanWarnings[w].count = vres.metrics.orphanedNodes
              /\ orphanWarnings[w].affectedNodes = firstN(orphanedIds, 5)

-----------------------------------------------------------------------------
(* Properties of the duplicate link check (SpecKeys) *)

\* an earlier link has the same source and the same target as link i
sameEdgeBefore(i) ==
    \E j \in 1..(i - 1) :
        /\ linkItemsIn[j].source = linkItemsIn[i].source
        /\ linkItemsIn[j].target = linkItemsIn[i].target

\* C26: among links whose source and target are non-empty strings, the link
\* at index i gets a DUPLICATE_LINK warning exactly when an earlier link has
\* the same source and the same target, whatever characters the ids hold
C26_DuplicateIffSameEdgeBefore ==
    returned /\ ~faulted =>
        \A i \in DOMAIN linkItemsIn :
            hasAt(vres.warnings, "DUPLICATE_LINK", i) <=> sameEdgeBefore(i)

\* the stages in their fixed order
StageOrder ==
    <<[stage |-> "reading", progress |-> 10], [stage |-> "parsing", progress |-> 30],
      [stage |-> "validating", progress |-> 60],
      [stage |-> "transforming", progress |-> 80],
      [stage |-> "complete", progress |-> 100]>>

\* what the callback was invoked with so far is a prefix of the fixed order
stagesInOrder ==
    /\ Len(job.stages) <= Len(StageOrder)
    /\ job.stages = SubSeq(StageOrder, 1, Len(job.stages))
    /\ \A i, k \in DOMAIN job.stages : i < k => job.stages[i].progress < job.stages[k].progress

completeInvoked == \E i \in DOMAIN job.stages : job.stages[i].stage = "complete"

\* C27 as stated: the callback is invoked in the order reading(10),
\* parsing(30), validating(60), transforming(80), complete(100), each at most
\* once; a run that fails was invoked with a prefix that excludes complete;
\* complete comes only after the graph is built
C27_StagesInOrderNoCompleteOnFailure ==
    job.pc # "idle" =>
        /\ stagesInOrder
        /\ job.pc = "rejected" => ~completeInvoked
        /\ completeInvoked => job.data # NoData

\* C27: as stated, except that a run can fail after complete was invoked,
\* namely when the callback raises on its complete invocation, and only then
C27_StagesInOrderCompleteFailsOnlyByRaise ==
    job.pc # "idle" =>
        /\ stagesInOrder
        /\ job.pc = "rejected" /\ completeInvoked =>
              job.cbRaised /\ job.thrown = callbackError(job.cb) /\ job.data # NoData
        /\ completeInvoked => job.data # NoData

\* the callback raised on complete: the run failed after all five stages
C27_Witness ==
    /\ job.pc = "rejected"
    /\ job.stages = StageOrder
    /\ job.data.nodes.items # <<>>

-----------------------------------------------------------------------------
(* Properties of cancelled calls of the hook (SpecCancel) *)

\* the state a run must leave alone once its controller is aborted
GuardedState == {"validationResult", "error", "processing"}

\* C28: a call whose controller cancel() aborted returns null and calls none
\* of setValidationResult, setError, setProcessing after its await, also
\* when a new call began before it returned
C28_AbortedRunReturnsNullSetsNothing ==
    /\ prior.pc # "none" /\ prior.aborted =>
          /\ prior.sets \cap GuardedState = {}
          /\ prior.pc = "done" => prior.ret = HookNull
    /\ hook.aborted =>
          /\ hook.sets \cap GuardedState = {}
          /\ hook.pc = "done" => hook.ret = HookNull

\* a cancelled call returned null after the call that began in the meantime
\* had returned its graph and set the validation result
C28_Witness ==
    /\ prior.pc = "done"
    /\ prior.aborted
    /\ prior.ret = HookNull
    /\ prior.job.result.k = "rejected"
    /\ hook.pc = "done"
    /\ hook.ret.k = "result"
    /\ hook.validationResult # HookNull
    /\ ~hook.processing

-----------------------------------------------------------------------------
(* Properties of the notification list (SpecNotify) *)

\* C29: a notification added with duration 0 leaves the list only by
\* removeNotification or clearNotifications, never by the timer of another
\* notification, also when both were added in the same millisecond
C29_PersistentOutlivesTimers ==
    \A r \in app.removals : r.duration = Duration(0) => r.by # "timer"

-----------------------------------------------------------------------------
(* Properties of validate on ingested graphs (SpecUnicode) *)

codesOf(list) == {list[n].code : n \in DOMAIN list}

\* every link of the validated graph starts and ends at the id of a node
referentiallyClosed ==
    \A i \in DOMAIN linkItemsIn :
        /\ linkItemsIn[i].source \in idsIn
        /\ linkItemsIn[i].target \in idsIn

\* C30: every graph produced by ingestion is referentially closed, and
\* validate on it reports no INVALID_LINK_SOURCE, INVALID_LINK_TARGET or
\* DUPLICATE_NODE_ID error and no DUPLICATE_NODE_NAME warning
C30_IngestedGraphClosedNoDuplicates ==
    returned =>
        /\ referentiallyClosed
        /\ codesOf(vres.errors) \cap {"INVALID_LINK_SOURCE", "INVALID_LINK_TARGET",
                                      "DUPLICATE_NODE_ID"} = {}
        /\ "DUPLICATE_NODE_NAME" \notin codesOf(vres.warnings)

\* the characters of the rows that are ASCII
AsciiChars ==
    Range(LowerCase) \cup Range(UpperCase) \cup Digits \cup {" ", "\t", "\n", "!", "-", "_"}

asciiNames ==
    \A i \in DOMAIN nodeItemsIn :
        \A n \in DOMAIN nodeItemsIn[i].name.s : nodeItemsIn[i].name.s[n] \in AsciiChars

\* C30: as stated, the DUPLICATE_NODE_NAME warning being excluded only for
\* graphs whose node names are ASCII: a name with a letter outside a-zA-Z
\* whose lowercase is an ASCII letter shares its lowercase form with another
\* name while their ids differ
C30_IngestedGraphClosedNoAsciiDuplicates ==
    returned =>
        /\ referentiallyClosed
        /\ codesOf(vres.errors) \cap {"INVALID_LINK_SOURCE", "INVALID_LINK_TARGET",
                                      "DUPLICATE_NODE_ID"} = {}
        /\ asciiNames => "DUPLICATE_NODE_NAME" \notin codesOf(vres.warnings)

\* validate returned for a graph of two rows in which a node was written
\* under one id with two names that differ in case, and a link ends at the
\* empty id
C30_Witness ==
    /\ returned
    /\ asciiNames
    /\ Len(rowsLog) = 2
    /\ \E m, n \in DOMAIN upserts :
          /\ upserts[m].id = upserts[n].id
          /\ upserts[m].name # upserts[n].name
          /\ toLowerCase(upserts[m].name) = toLowerCase(upserts[n].name)
    /\ \E i \in DOMAIN linkItemsIn : linkItemsIn[i].target = Str(<<>>)
    /\ "MISSING_LINK_TARGET" \in codesOf(vres.errors)

====
